---- MODULE Spec2Model ----
(***************************************************************************)
(* Teacher-attendance application (SMP-IT-Adifathi).                        *)
(*                                                                         *)
(* The model covers the application state store (appReducer, the UI        *)
(* handlers that dispatch to it, the bootstrap state and the write to      *)
(* localStorage), the work-day predicate, the period resolver, the         *)
(* summaries and the trend of the Dashboard (analysisData) and the         *)
(* summary of the monthly attendance grid (getSummary).                    *)
(*                                                                         *)
(* Strings are sequences of one-character strings, so that formatting and  *)
(* parsing of date keys, record ids and period tokens are computed as the  *)
(* code computes them.  A JavaScript Date is its time value, counted in    *)
(* whole hours since 1970-01-01T00:00Z; the local time zone is a fixed     *)
(* whole-hour offset tz (no daylight saving).                              *)
(***************************************************************************)
EXTENDS Integers, Sequences, FiniteSets, TLC

VARIABLES
  teachers,           \* state.teachers: Teacher[]
  attendanceRecords,  \* state.attendanceRecords: AttendanceRecord[]
  calendarSettings,   \* state.calendarSettings: CalendarDaySetting[]
  schedules,          \* WorkSchedulePage's local copy of the teachers, with the pending toggles
  now,                \* the clock: the time value new Date() returns
  tz,                 \* the machine's offset from UTC, in hours
  period,             \* DashboardPage's selected period token
  periodOptions,      \* the tokens generatePeriodOptions produced when the Dashboard mounted
  gridCurrentDate,    \* AttendancePage's currentDate (the month the grid shows)
  events,             \* history: the number of handler events that dispatched to the store
  localStorage,       \* the item 'attendanceApp' of localStorage: the state last written
  storageAvailable,   \* whether localStorage.setItem succeeds (FALSE: it throws)
  writeOutcome,       \* history: how the last run of AppProvider's effect ended
  writeArgument       \* history: the state the last run of the effect handed to JSON.stringify

vars == <<teachers, attendanceRecords, calendarSettings, schedules, now, tz, period, periodOptions, gridCurrentDate, events,
          localStorage, storageAvailable, writeOutcome, writeArgument>>

-----------------------------------------------------------------------------
(* Strings *)

Digits == <<"0", "1", "2", "3", "4", "5", "6", "7", "8", "9">>

IsDigit(c) == \E i \in 1..10 : Digits[i] = c

DigitValue(c) == (CHOOSE i \in 1..10 : Digits[i] = c) - 1

RECURSIVE toString(_)
\* Number.prototype.toString of a non-negative integer
toString(n) == IF n < 10 THEN <<Digits[n + 1]>> ELSE toString(n \div 10) \o <<Digits[(n % 10) + 1]>>

RECURSIVE padStart(_, _, _)
\* String.prototype.padStart with a one-character filler
padStart(s, len, ch) == IF Len(s) >= len THEN s ELSE padStart(<<ch>> \o s, len, ch)

NaN == "NaN"

RECURSIVE DigitsValue(_, _)
DigitsValue(s, acc) == IF s = <<>> \/ ~IsDigit(Head(s)) THEN acc ELSE DigitsValue(Tail(s), acc * 10 + DigitValue(Head(s)))

\* parseInt: the value of the leading run of decimal digits, NaN when there is none
parseInt(s) == IF s = <<>> \/ ~IsDigit(Head(s)) THEN NaN ELSE DigitsValue(s, 0)

\* isNaN(parseInt(s)): the string does not start with a decimal digit (undefined is "")
parseIntIsNaN(s) == s = <<>> \/ ~IsDigit(Head(s))

RECURSIVE splitAcc(_, _, _)
splitAcc(s, sep, cur) ==
  IF s = <<>> THEN <<cur>>
  ELSE IF Head(s) = sep THEN <<cur>> \o splitAcc(Tail(s), sep, <<>>)
  ELSE splitAcc(Tail(s), sep, Append(cur, Head(s)))

\* String.prototype.split on a one-character separator
split(s, sep) == splitAcc(s, sep, <<>>)

\* String.prototype.startsWith
startsWith(s, prefix) == Len(s) >= Len(prefix) /\ SubSeq(s, 1, Len(prefix)) = prefix

\* String.prototype.substring(from) (from is 0-based)
substring(s, from) == SubSeq(s, from + 1, Len(s))


-----------------------------------------------------------------------------
(* Dates *)

HoursPerDay == 24

\* Days from 1970-01-01 to the civil date y-m-d (m in 1..12), proleptic Gregorian
DaysFromCivil(y, m, d) ==
  LET yy  == IF m <= 2 THEN y - 1 ELSE y
      era == yy \div 400
      yoe == yy - era * 400
      mp  == IF m > 2 THEN m - 3 ELSE m + 9
      doy == (153 * mp + 2) \div 5 + d - 1
      doe == yoe * 365 + yoe \div 4 - yoe \div 100 + doy
  IN  era * 146097 + doe - 719468

\* The civil date of a day number: [year, month (1..12), day]
CivilFromDays(z) ==
  LET zz  == z + 719468
      era == zz \div 146097
      doe == zz - era * 146097
      yoe == (doe - doe \div 1460 + doe \div 36524 - doe \div 146096) \div 365
      doy == doe - (365 * yoe + yoe \div 4 - yoe \div 100)
      mp  == (5 * doy + 2) \div 153
      d   == doy - (153 * mp + 2) \div 5 + 1
      m   == IF mp < 10 THEN mp + 3 ELSE mp - 9
  IN  [year |-> (yoe + era * 400) + (IF m <= 2 THEN 1 ELSE 0), month |-> m, day |-> d]

\* new Date(year, monthIndex, day): local midnight; monthIndex and day overflow
\* into the neighbouring months and years as the Date constructor normalises them
newDate(year, monthIndex, day) ==
  LET y == year + (monthIndex \div 12)
      m == monthIndex % 12
  IN  (DaysFromCivil(y, m + 1, 1) + (day - 1)) * HoursPerDay - tz

\* The local calendar day (a day number) a time value falls on
LocalDay(t) == (t + tz) \div HoursPerDay

getFullYear(t) == CivilFromDays(LocalDay(t)).year

\* 0-based month
getMonth(t) == CivilFromDays(LocalDay(t)).month - 1

getDate(t) == CivilFromDays(LocalDay(t)).day

\* 0 = Sunday .. 6 = Saturday (1970-01-01 was a Thursday)
getDay(t) == (LocalDay(t) + 4) % 7

\* today.setHours(0, 0, 0, 0): local midnight of the same local day
setHoursZero(t) == LocalDay(t) * HoursPerDay - tz

\* d.setDate(d.getDate() + 1): the next local day, same local time of day
setDateNext(t) == t + HoursPerDay

\* new Date("YYYY-MM-DD"): a date-only ISO string is read as midnight UTC
newDateFromISO(s) ==
  LET parts == split(s, "-")
  IN  DaysFromCivil(parseInt(parts[1]), parseInt(parts[2]), parseInt(parts[3])) * HoursPerDay

\* toLocalDateString: the local calendar day as YYYY-MM-DD
toLocalDateString(date) ==
  LET year  == toString(getFullYear(date))
      month == padStart(toString(getMonth(date) + 1), 2, "0")
      day   == padStart(toString(getDate(date)), 2, "0")
  IN  year \o <<"-">> \o month \o <<"-">> \o day

\* fromLocalDateString: local midnight of the day a YYYY-MM-DD key names
fromLocalDateString(dateString) ==
  LET parts == split(dateString, "-")
      year  == parseInt(parts[1])
      month == parseInt(parts[2]) - 1
      day   == parseInt(parts[3])
  IN  newDate(year, month, day)

-----------------------------------------------------------------------------
(* Types *)

undefined == "undefined"

WORKDAY == "WORKDAY"
WEEKEND == "WEEKEND"
NATIONAL_HOLIDAY == "NATIONAL_HOLIDAY"
JOINT_LEAVE == "JOINT_LEAVE"

DayType == {WORKDAY, WEEKEND, NATIONAL_HOLIDAY, JOINT_LEAVE}

PRESENT == "PRESENT"
SICK == "SICK"
PERMIT == "PERMIT"
ABSENT == "ABSENT"

AttendanceStatus == {PRESENT, SICK, PERMIT, ABSENT}

-----------------------------------------------------------------------------
(* Arrays *)

\* Array.prototype.findIndex and Array.prototype.find, 1-based, given the result of the
\* callback on each element: the first index whose element passes, 0 when none does
\* (findIndex's -1, find's undefined)
findIndex(passes) ==
  LET hits == {i \in 1..Len(passes) : passes[i]}
  IN  IF hits = {} THEN 0 ELSE CHOOSE i \in hits : \A j \in hits : i <= j

\* Array.prototype.includes
includes(arr, x) == \E i \in 1..Len(arr) : arr[i] = x

\* Array.prototype.some, given the result of the callback on each element
some(passes) == \E i \in 1..Len(passes) : passes[i]

RECURSIVE insertSorted(_, _)
insertSorted(sorted, x) ==
  IF sorted = <<>> THEN <<x>>
  ELSE IF x < Head(sorted) THEN <<x>> \o sorted
  ELSE <<Head(sorted)>> \o insertSorted(Tail(sorted), x)

RECURSIVE sortNumbers(_)
\* Array.prototype.sort((a, b) => a - b)
sortNumbers(arr) == IF arr = <<>> THEN <<>> ELSE insertSorted(sortNumbers(Tail(arr)), Head(arr))

-----------------------------------------------------------------------------
(* Application state store: appReducer *)

State == [teachers |-> teachers, attendanceRecords |-> attendanceRecords, calendarSettings |-> calendarSettings]

RECURSIVE upsertStale(_, _, _)
upsertStale(stateRecords, newRecords, payload) ==
  IF payload = <<>> THEN newRecords
  ELSE LET newRecord == Head(payload)
           index     == findIndex([k \in 1..Len(stateRecords) |-> stateRecords[k].id = newRecord.id])
       IN  upsertStale(stateRecords,
                       IF index # 0 THEN [newRecords EXCEPT ![index] = newRecord] ELSE Append(newRecords, newRecord),
                       Tail(payload))

\* a forEach that looks each incoming id up in state.attendanceRecords, the ledger as
\* it was before the payload, instead of in the working copy
upsertEachStale(newRecords, payload) == upsertStale(newRecords, newRecords, payload)

RECURSIVE upsertEachMerge(_, _)
\* a forEach that spreads the incoming record over the old one, so that the fields the
\* incoming record leaves undefined keep their old values
upsertEachMerge(newRecords, payload) ==
  IF payload = <<>> THEN newRecords
  ELSE LET newRecord == Head(payload)
           index     == findIndex([k \in 1..Len(newRecords) |-> newRecords[k].id = newRecord.id])
           merged    == [newRecord EXCEPT
                           !.checkIn = IF @ = undefined THEN newRecords[index].checkIn ELSE @,
                           !.checkOut = IF @ = undefined THEN newRecords[index].checkOut ELSE @]
       IN  upsertEachMerge(IF index # 0 THEN [newRecords EXCEPT ![index] = merged] ELSE Append(newRecords, newRecord), Tail(payload))

RECURSIVE upsertEach(_, _)
\* action.payload.forEach over newRecords, the working copy of the ledger
upsertEach(newRecords, payload) ==
  IF payload = <<>> THEN newRecords
  ELSE LET newRecord == Head(payload)
           index     == findIndex([k \in 1..Len(newRecords) |-> newRecords[k].id = newRecord.id])
       IN  IF index # 0
             THEN upsertEach([newRecords EXCEPT ![index] = newRecord], Tail(payload))
             ELSE upsertEach(Append(newRecords, newRecord), Tail(payload))

\* a SET_CALENDAR_DAY that appends the payload without looking for the date
setCalendarDayAppend(settings, payload) == Append(settings, payload)

setCalendarDay(settings, payload) ==
  LET existingSettingIndex == findIndex([k \in 1..Len(settings) |-> settings[k].date = payload.date])
  IN  IF existingSettingIndex > 0 THEN [settings EXCEPT ![existingSettingIndex] = payload]
      ELSE Append(settings, payload)

\* a reducer whose DELETE_TEACHER cascades: the records of the deleted teacher go with it
appReducerCascade(state, action) ==
  CASE action.type = "ADD_TEACHER" ->
         [state EXCEPT !.teachers = Append(@, action.payload)]
    [] action.type = "UPDATE_TEACHER" ->
         [state EXCEPT !.teachers = [k \in 1..Len(@) |-> IF @[k].id = action.payload.id THEN action.payload ELSE @[k]]]
    [] action.type = "DELETE_TEACHER" ->
         [state EXCEPT !.teachers = SelectSeq(@, LAMBDA t : t.id # action.payload),
                       !.attendanceRecords = SelectSeq(@, LAMBDA r : r.teacherId # action.payload)]
    [] action.type = "SET_CALENDAR_DAY" ->
         [state EXCEPT !.calendarSettings = setCalendarDay(@, action.payload)]
    [] action.type = "UPSERT_ATTENDANCE" ->
         [state EXCEPT !.attendanceRecords = upsertEach(@, action.payload)]
    [] action.type = "UPDATE_TEACHER_SCHEDULE" ->
         [state EXCEPT !.teachers = [k \in 1..Len(@) |-> IF @[k].id = action.payload.teacherId THEN [@[k] EXCEPT !.workDays = action.payload.workDays] ELSE @[k]]]
    [] OTHER -> state

\* a reducer whose UPDATE_TEACHER_SCHEDULE adds the days of the payload to the days the
\* teacher has
appReducerScheduleMerge(state, action) ==
  CASE action.type = "ADD_TEACHER" ->
         [state EXCEPT !.teachers = Append(@, action.payload)]
    [] action.type = "UPDATE_TEACHER" ->
         [state EXCEPT !.teachers = [k \in 1..Len(@) |-> IF @[k].id = action.payload.id THEN action.payload ELSE @[k]]]
    [] action.type = "DELETE_TEACHER" ->
         [state EXCEPT !.teachers = SelectSeq(@, LAMBDA t : t.id # action.payload)]
    [] action.type = "SET_CALENDAR_DAY" ->
         [state EXCEPT !.calendarSettings = setCalendarDay(@, action.payload)]
    [] action.type = "UPSERT_ATTENDANCE" ->
         [state EXCEPT !.attendanceRecords = upsertEach(@, action.payload)]
    [] action.type = "UPDATE_TEACHER_SCHEDULE" ->
         [state EXCEPT !.teachers = [k \in 1..Len(@) |-> IF @[k].id = action.payload.teacherId THEN [@[k] EXCEPT !.workDays = @ \o action.payload.workDays] ELSE @[k]]]
    [] OTHER -> state

appReducer(state, action) ==
  CASE action.type = "ADD_TEACHER" ->
         [state EXCEPT !.teachers = Append(@, action.payload)]
    [] action.type = "UPDATE_TEACHER" ->
         [state EXCEPT !.teachers = [k \in 1..Len(@) |-> IF @[k].id = action.payload.id THEN action.payload ELSE @[k]]]
    [] action.type = "DELETE_TEACHER" ->
         [state EXCEPT !.teachers = SelectSeq(@, LAMBDA t : t.id # action.payload)]
    [] action.type = "SET_CALENDAR_DAY" ->
         [state EXCEPT !.calendarSettings = setCalendarDay(@, action.payload)]
    [] action.type = "UPSERT_ATTENDANCE" ->
         [state EXCEPT !.attendanceRecords = upsertEach(@, action.payload)]
    [] action.type = "UPDATE_TEACHER_SCHEDULE" ->
         [state EXCEPT !.teachers = [k \in 1..Len(@) |-> IF @[k].id = action.payload.teacherId THEN [@[k] EXCEPT !.workDays = action.payload.workDays] ELSE @[k]]]
    [] OTHER -> state

RECURSIVE reduceAll(_, _)
\* the actions one event handler dispatches, reduced in order
reduceAll(state, actions) == IF actions = <<>> THEN state ELSE reduceAll(appReducer(state, Head(actions)), Tail(actions))

-----------------------------------------------------------------------------
(* appReducer on the heap: which arrays and state objects it allocates and writes.
   The heap is the sequence of the objects allocated so far, an address is an index in
   it; a state object holds the addresses of its three arrays. *)

\* a new object: its address is the next free one
alloc(heap, value) == [heap |-> Append(heap, value), addr |-> Len(heap) + 1]

\* no copy at all: the name of the old array is used for the new one
spreadAlias(heap, addr) == [heap |-> heap, addr |-> addr]

\* [...array]: a new array with the elements of the old one
spread(heap, addr) == alloc(heap, heap[addr])

RECURSIVE upsertEachHeap(_, _, _)
\* action.payload.forEach: newRecords[index] = newRecord or newRecords.push(newRecord),
\* written to the array at the address newRecords
upsertEachHeap(heap, newRecords, payload) ==
  IF payload = <<>> THEN heap
  ELSE LET newRecord == Head(payload)
           index     == findIndex([k \in 1..Len(heap[newRecords]) |-> heap[newRecords][k].id = newRecord.id])
       IN  upsertEachHeap([heap EXCEPT ![newRecords] = IF index # 0 THEN [@ EXCEPT ![index] = newRecord] ELSE Append(@, newRecord)],
                          newRecords, Tail(payload))

\* appReducer(state, action) for the state object at the address state: the heap after
\* the call and the address of the state object returned
appReducerHeap(heap, state, action) ==
  LET s == heap[state]
  IN  CASE action.type = "ADD_TEACHER" ->
             LET a == alloc(heap, Append(heap[s.teachers], action.payload))
             IN  alloc(a.heap, [s EXCEPT !.teachers = a.addr])
        [] action.type = "UPDATE_TEACHER" ->
             LET old == heap[s.teachers]
                 a   == alloc(heap, [k \in 1..Len(old) |-> IF old[k].id = action.payload.id THEN action.payload ELSE old[k]])
             IN  alloc(a.heap, [s EXCEPT !.teachers = a.addr])
        [] action.type = "DELETE_TEACHER" ->
             LET a == alloc(heap, SelectSeq(heap[s.teachers], LAMBDA t : t.id # action.payload))
             IN  alloc(a.heap, [s EXCEPT !.teachers = a.addr])
        [] action.type = "SET_CALENDAR_DAY" ->
             LET old == heap[s.calendarSettings]
                 existingSettingIndex == findIndex([k \in 1..Len(old) |-> old[k].date = action.payload.date])
             IN  IF existingSettingIndex > 0
                   THEN LET newSettings == spread(heap, s.calendarSettings)
                            written     == [newSettings.heap EXCEPT ![newSettings.addr][existingSettingIndex] = action.payload]
                        IN  alloc(written, [s EXCEPT !.calendarSettings = newSettings.addr])
                   ELSE LET a == alloc(heap, Append(old, action.payload))
                        IN  alloc(a.heap, [s EXCEPT !.calendarSettings = a.addr])
        [] action.type = "UPSERT_ATTENDANCE" ->
             LET newRecords == spread(heap, s.attendanceRecords)
                 written    == upsertEachHeap(newRecords.heap, newRecords.addr, action.payload)
             IN  alloc(written, [s EXCEPT !.attendanceRecords = newRecords.addr])
        [] action.type = "UPDATE_TEACHER_SCHEDULE" ->
             LET old == heap[s.teachers]
                 a   == alloc(heap, [k \in 1..Len(old) |-> IF old[k].id = action.payload.teacherId
                                                            THEN [old[k] EXCEPT !.workDays = action.payload.workDays] ELSE old[k]])
             IN  alloc(a.heap, [s EXCEPT !.teachers = a.addr])
        [] OTHER -> [heap |-> heap, addr |-> state]

\* the state the store holds, as objects: its three arrays at the addresses 1, 2 and 3
\* and the state object at the address 4
StateHeap ==
  <<teachers, attendanceRecords, calendarSettings, [teachers |-> 1, attendanceRecords |-> 2, calendarSettings |-> 3]>>

\* the value of the state object at an address: its arrays read through their addresses
stateAt(heap, state) ==
  [teachers |-> heap[heap[state].teachers], attendanceRecords |-> heap[heap[state].attendanceRecords],
   calendarSettings |-> heap[heap[state].calendarSettings]]

-----------------------------------------------------------------------------
(* Work-day predicate *)

\* a predicate that asks the teacher's schedule only, whatever the type of the day
isTeacherWorkDayScheduleOnly(teacher, date, settings) ==
  includes(teacher.workDays, getDay(date))

\* DashboardPage's isTeacherWorkDay
isTeacherWorkDay(teacher, date, settings) ==
  LET dateString == toLocalDateString(date)
      setting    == findIndex([k \in 1..Len(settings) |-> settings[k].date = dateString])
      dayOfWeek  == getDay(date)
      dayType    == IF setting # 0 THEN settings[setting].type
                    ELSE IF dayOfWeek = 0 \/ dayOfWeek = 6 THEN WEEKEND ELSE WORKDAY
  IN  IF dayType # WORKDAY THEN FALSE ELSE includes(teacher.workDays, dayOfWeek)

\* a predicate for which a setting can close a day but cannot open a weekend
isTeacherWorkDayClosingOnly(teacher, date, settings) ==
  LET dateString == toLocalDateString(date)
      setting    == findIndex([k \in 1..Len(settings) |-> settings[k].date = dateString])
      dayOfWeek  == getDay(date)
      dayType    == IF dayOfWeek = 0 \/ dayOfWeek = 6 THEN WEEKEND
                    ELSE IF setting # 0 THEN settings[setting].type ELSE WORKDAY
  IN  IF dayType # WORKDAY THEN FALSE ELSE includes(teacher.workDays, dayOfWeek)

\* AttendancePage's isTeacherWorkDay
isTeacherWorkDayAttendance(teacher, date, settings) ==
  LET dateString == toLocalDateString(date)
      setting    == findIndex([k \in 1..Len(settings) |-> settings[k].date = dateString])
      dayOfWeek  == getDay(date)
      dayType    == IF setting # 0 THEN settings[setting].type
                    ELSE IF dayOfWeek = 0 \/ dayOfWeek = 6 THEN WEEKEND ELSE WORKDAY
  IN  IF dayType # WORKDAY THEN FALSE ELSE includes(teacher.workDays, dayOfWeek)

-----------------------------------------------------------------------------
(* Bounds and input sets *)

\* the number of handler events of a behaviour of Spec that dispatch to the store
MaxEvents == 2

\* the number of attendance submissions of a behaviour of SpecLedger
MaxUpserts == 3

\* the number of calendar days saved in a behaviour of SpecCalendar
MaxSaves == 2

\* the number of teachers the list holds
MaxTeachers == 2

\* the number of times the clock moves on by a day
MaxTicks == 1

\* the UTC offsets of the machine: west of, at and east of Greenwich
TzOffsets == {-5, 0, 7}

\* the clock when the application starts: 08:00 local on Wednesday 2024-02-28
NowStart == newDate(2024, 1, 28) + 8

T1 == <<"t", "-", "1">>
T2 == <<"t", "-", "2">>

\* the first entries of the roster
initialTeachers ==
  << [id |-> T1, name |-> "Ahmad Fauzi", subject |-> "Belum diatur", profilePicture |-> "seed=Ahmad%20Fauzi", workDays |-> <<1, 2, 3, 4, 5>>],
     [id |-> T2, name |-> "Budi Santoso", subject |-> "Belum diatur", profilePicture |-> "seed=Budi%20Santoso", workDays |-> <<1, 2, 3, 4, 5>>] >>

-----------------------------------------------------------------------------
(* DashboardPage: generatePeriodOptions and analysisData *)

generatePeriodOptions ==
  LET currentYear  == toString(getFullYear(now))
      currentMonth == getMonth(now)
  IN  [options |-> [index \in 1..12 |-> currentYear \o <<"-">> \o padStart(toString(index), 2, "0")]
                   \o [q \in 1..4 |-> currentYear \o <<"-", "q", Digits[q + 1]>>]
                   \o [n \in 1..2 |-> currentYear \o <<"-", "s", Digits[n + 1]>>]
                   \o <<currentYear>>,
       default |-> currentYear \o <<"-">> \o padStart(toString(currentMonth + 1), 2, "0")]

\* a resolution that ends every month on its 28th day, and the year with it
periodRangeShortMonths(p) ==
  LET year        == getFullYear(now)
      parts       == split(p, "-")
      periodKey   == parts[1]
      periodValue == IF Len(parts) >= 2 THEN parts[2] ELSE <<>>
  IN  IF Len(p) = 4
        THEN [startDate |-> newDate(parseInt(p), 0, 1), endDate |-> newDate(parseInt(p), 11, 28)]
      ELSE IF Len(parts) >= 2 /\ startsWith(periodValue, <<"q">>)
        THEN LET q == parseInt(substring(periodValue, 1))
             IN  [startDate |-> newDate(year, (q - 1) * 3, 1), endDate |-> newDate(year, q * 3, 0)]
      ELSE IF Len(parts) >= 2 /\ startsWith(periodValue, <<"s">>)
        THEN LET s == parseInt(substring(periodValue, 1))
             IN  [startDate |-> newDate(year, (s - 1) * 6, 1), endDate |-> newDate(year, s * 6, 0)]
      ELSE [startDate |-> newDate(parseInt(periodKey), parseInt(periodValue) - 1, 1),
            endDate |-> newDate(parseInt(periodKey), parseInt(periodValue) - 1, 28)]

\* the [startDate, endDate] analysisData resolves a period token to
periodRange(p) ==
  LET year        == getFullYear(now)
      parts       == split(p, "-")
      periodKey   == parts[1]
      periodValue == IF Len(parts) >= 2 THEN parts[2] ELSE <<>>
  IN  IF Len(p) = 4
        THEN [startDate |-> newDate(parseInt(p), 0, 1), endDate |-> newDate(parseInt(p), 11, 31)]
      ELSE IF Len(parts) >= 2 /\ startsWith(periodValue, <<"q">>)
        THEN LET q == parseInt(substring(periodValue, 1))
             IN  [startDate |-> newDate(year, (q - 1) * 3, 1), endDate |-> newDate(year, q * 3, 0)]
      ELSE IF Len(parts) >= 2 /\ startsWith(periodValue, <<"s">>)
        THEN LET s == parseInt(substring(periodValue, 1))
             IN  [startDate |-> newDate(year, (s - 1) * 6, 1), endDate |-> newDate(year, s * 6, 0)]
      ELSE [startDate |-> newDate(parseInt(periodKey), parseInt(periodValue) - 1, 1),
            endDate |-> newDate(parseInt(periodKey), parseInt(periodValue), 0)]

\* the period parsing hands a NaN to the Date constructors: startDate and endDate are
\* Invalid Dates, no record passes the filter and no loop over the range runs
periodRangeIsInvalidDate(p) ==
  LET parts       == split(p, "-")
      periodKey   == parts[1]
      periodValue == IF Len(parts) >= 2 THEN parts[2] ELSE <<>>
  IN  IF Len(p) = 4 THEN parseIntIsNaN(p)
      ELSE IF Len(parts) >= 2 /\ startsWith(periodValue, <<"q">>) THEN parseIntIsNaN(substring(periodValue, 1))
      ELSE IF Len(parts) >= 2 /\ startsWith(periodValue, <<"s">>) THEN parseIntIsNaN(substring(periodValue, 1))
      ELSE parseIntIsNaN(periodKey) \/ parseIntIsNaN(periodValue)

\* the records whose date, read as an ISO string, lies between the bounds of the range
filteredRecords(p) ==
  LET r == periodRange(p)
  IN  SelectSeq(attendanceRecords, LAMBDA rec : LET recordDate == newDateFromISO(rec.date)
                                                IN  recordDate >= r.startDate /\ recordDate <= r.endDate)

\* today = new Date(); today.setHours(0, 0, 0, 0)
today == setHoursZero(now)

\* Math.round(num / den * 100) for den > 0: the nearest integer, halves towards +Infinity
roundPercent(num, den) == (200 * num + den) \div (2 * den)

Max(a, b) == IF a >= b THEN a ELSE b

\* the record the per-day lookup of the teacherStats loop finds (0: none)
dayRecord(teacher, currentDate, filtered) ==
  LET dateString == toLocalDateString(currentDate)
  IN  findIndex([k \in 1..Len(filtered) |-> filtered[k].teacherId = teacher.id /\ filtered[k].date = dateString])

\* a loop body that infers an absence on today as well
dayCountThroughToday(teacher, currentDate, filtered) ==
  IF isTeacherWorkDay(teacher, currentDate, calendarSettings)
    THEN LET record == dayRecord(teacher, currentDate, filtered)
         IN  IF record # 0
               THEN [workDaysInPeriod |-> 1,
                     S |-> IF filtered[record].status = SICK THEN 1 ELSE 0,
                     I |-> IF filtered[record].status = PERMIT THEN 1 ELSE 0,
                     A |-> IF filtered[record].status = ABSENT THEN 1 ELSE 0]
               ELSE [workDaysInPeriod |-> 1, S |-> 0, I |-> 0, A |-> IF currentDate <= today THEN 1 ELSE 0]
    ELSE [workDaysInPeriod |-> 0, S |-> 0, I |-> 0, A |-> 0]

\* one pass of the body of the teacherStats loop: what the day adds to the counters
dayCount(teacher, currentDate, filtered) ==
  IF isTeacherWorkDay(teacher, currentDate, calendarSettings)
    THEN LET record == dayRecord(teacher, currentDate, filtered)
         IN  IF record # 0
               THEN [workDaysInPeriod |-> 1,
                     S |-> IF filtered[record].status = SICK THEN 1 ELSE 0,
                     I |-> IF filtered[record].status = PERMIT THEN 1 ELSE 0,
                     A |-> IF filtered[record].status = ABSENT THEN 1 ELSE 0]
               ELSE [workDaysInPeriod |-> 1, S |-> 0, I |-> 0, A |-> IF currentDate < today THEN 1 ELSE 0]
    ELSE [workDaysInPeriod |-> 0, S |-> 0, I |-> 0, A |-> 0]

RECURSIVE countDays(_, _, _, _, _)
\* for (let d = new Date(startDate); d <= endDate; d.setDate(d.getDate() + 1))
\* (the counters are natural numbers; reading one at each pass settles the sum so far
\* before the next day is counted)
countDays(teacher, d, endDate, filtered, acc) ==
  IF acc.workDaysInPeriod >= 0 /\ d <= endDate
    THEN LET c == dayCount(teacher, d, filtered)
         IN  countDays(teacher, setDateNext(d), endDate, filtered,
                       [workDaysInPeriod |-> acc.workDaysInPeriod + c.workDaysInPeriod,
                        S |-> acc.S + c.S, I |-> acc.I + c.I, A |-> acc.A + c.A])
    ELSE acc

\* one element of teacherStats
teacherStat(teacher, p) ==
  LET r            == periodRange(p)
      filtered     == filteredRecords(p)
      summary      == countDays(teacher, r.startDate, r.endDate, filtered,
                                [workDaysInPeriod |-> 0, S |-> 0, I |-> 0, A |-> 0])
      totalAbsence == summary.S + summary.I + summary.A
      presentDays  == Max(0, summary.workDaysInPeriod - totalAbsence)
  IN  [id |-> teacher.id, workDaysInPeriod |-> summary.workDaysInPeriod, presentDays |-> presentDays,
       S |-> summary.S, I |-> summary.I, A |-> summary.A,
       presencePercentage |-> IF summary.workDaysInPeriod > 0
                                THEN roundPercent(presentDays, summary.workDaysInPeriod) ELSE 0]

\* teacherStats = state.teachers.map(...)
teacherStats(p) == [k \in 1..Len(teachers) |-> teacherStat(teachers[k], p)]

\* overall figures to which the records of the period that belong to no teacher of the
\* list add their sick, permit and absent days
overallStatsOfLedger(stats) ==
  LET filtered  == filteredRecords(period)
      orphan(st) == Cardinality({k \in 1..Len(filtered) :
                                  /\ filtered[k].status = st
                                  /\ \A i \in 1..Len(teachers) : teachers[i].id # filtered[k].teacherId})
      sum[k \in 0..Len(stats)] ==
        IF k = 0 THEN [PRESENT |-> 0, SICK |-> orphan(SICK), PERMIT |-> orphan(PERMIT), ABSENT |-> orphan(ABSENT)]
        ELSE [PRESENT |-> sum[k - 1].PRESENT + stats[k].presentDays, SICK |-> sum[k - 1].SICK + stats[k].S,
              PERMIT |-> sum[k - 1].PERMIT + stats[k].I, ABSENT |-> sum[k - 1].ABSENT + stats[k].A]
  IN  sum[Len(stats)]

RECURSIVE overallStatsPresentUnlessAbsent(_)
\* overall figures that take the sick and the permitted days for present days as well
overallStatsPresentUnlessAbsent(stats) ==
  IF stats = <<>> THEN [PRESENT |-> 0, SICK |-> 0, PERMIT |-> 0, ABSENT |-> 0]
  ELSE LET acc  == overallStatsPresentUnlessAbsent(SubSeq(stats, 1, Len(stats) - 1))
           curr == stats[Len(stats)]
       IN  [PRESENT |-> acc.PRESENT + (curr.workDaysInPeriod - curr.A), SICK |-> acc.SICK + curr.S,
            PERMIT |-> acc.PERMIT + curr.I, ABSENT |-> acc.ABSENT + curr.A]

RECURSIVE overallStats(_)
\* teacherStats.reduce((acc, curr) => ..., { PRESENT: 0, SICK: 0, PERMIT: 0, ABSENT: 0 }),
\* written from the last element down (the sums do not depend on the order)
overallStats(stats) ==
  IF stats = <<>> THEN [PRESENT |-> 0, SICK |-> 0, PERMIT |-> 0, ABSENT |-> 0]
  ELSE LET acc  == overallStats(SubSeq(stats, 1, Len(stats) - 1))
           curr == stats[Len(stats)]
       IN  [PRESENT |-> acc.PRESENT + curr.presentDays, SICK |-> acc.SICK + curr.S,
            PERMIT |-> acc.PERMIT + curr.I, ABSENT |-> acc.ABSENT + curr.A]

RECURSIVE totalWorkDaysInPeriod(_)
\* teacherStats.reduce((sum, t) => sum + t.workDaysInPeriod, 0)
totalWorkDaysInPeriod(stats) ==
  IF stats = <<>> THEN 0
  ELSE totalWorkDaysInPeriod(SubSeq(stats, 1, Len(stats) - 1)) + stats[Len(stats)].workDaysInPeriod

-----------------------------------------------------------------------------
(* DashboardPage: the trend of analysisData *)

\* the key of the dataset of all teachers
overallKey == <<"o", "v", "e", "r", "a", "l", "l">>

\* a gap in a dataset (JavaScript's null), coded as a number no percentage takes
null == 1000

monthLabels == <<"Jan", "Feb", "Mar", "Apr", "Mei", "Jun", "Jul", "Ags", "Sep", "Okt", "Nov", "Des">>

isLongPeriod(p) == includes(p, "q") \/ includes(p, "s") \/ Len(p) = 4

RECURSIVE teacherMonthWorkDays(_, _, _)
\* for (let d = new Date(monthStart); d <= monthEnd; d.setDate(d.getDate() + 1))
teacherMonthWorkDays(teacher, d, monthEnd) ==
  IF d <= monthEnd
    THEN (IF isTeacherWorkDay(teacher, d, calendarSettings) THEN 1 ELSE 0)
         + teacherMonthWorkDays(teacher, setDateNext(d), monthEnd)
    ELSE 0

\* filteredRecords.forEach: the records of the teacher whose date, read as an ISO string,
\* falls in month m and whose status is not PRESENT
teacherMonthAbsence(teacher, m, filtered) ==
  Cardinality({k \in 1..Len(filtered) :
                 /\ filtered[k].teacherId = teacher.id
                 /\ getMonth(newDateFromISO(filtered[k].date)) = m
                 /\ filtered[k].status # PRESENT})

\* the body of the teachers' loop of a month: the counters and the point pushed
teacherMonth(teacher, m, filtered) ==
  LET year       == getFullYear(now)
      monthStart == newDate(year, m, 1)
      monthEnd   == newDate(year, m + 1, 0)
      workDays   == teacherMonthWorkDays(teacher, monthStart, monthEnd)
      present    == workDays - teacherMonthAbsence(teacher, m, filtered)
  IN  [workDays |-> workDays, present |-> present,
       point |-> IF workDays > 0 THEN roundPercent(present, workDays) ELSE 0]

\* one pass of the loop over the months of a long period
trendMonth(m, filtered) ==
  LET months  == [k \in 1..Len(teachers) |-> teacherMonth(teachers[k], m, filtered)]
      work    == LET s[k \in 0..Len(months)] == IF k = 0 THEN 0 ELSE s[k - 1] + months[k].workDays IN s[Len(months)]
      present == LET s[k \in 0..Len(months)] == IF k = 0 THEN 0 ELSE s[k - 1] + months[k].present IN s[Len(months)]
  IN  [label |-> monthLabels[m + 1],
       points |-> [k \in 1..Len(teachers) |-> months[k].point],
       overall |-> IF work > 0 THEN roundPercent(present, work) ELSE 0]

\* the body of the teachers' loop of a day: the point pushed to the teacher's dataset
teacherDay(teacher, currentDate, filtered) ==
  IF isTeacherWorkDay(teacher, currentDate, calendarSettings)
    THEN LET record == dayRecord(teacher, currentDate, filtered)
         IN  IF (record # 0 /\ filtered[record].status # PRESENT) \/ (record = 0 /\ currentDate < today)
               THEN 0 ELSE 100
    ELSE null

\* a pass whose overall point is the mean of the teachers' points over the whole list, a
\* teacher who is not scheduled counting as 0
trendDayMeanOfTeachers(startDate, day, filtered) ==
  LET currentDate == newDate(getFullYear(startDate), getMonth(startDate), day)
      points      == [k \in 1..Len(teachers) |-> teacherDay(teachers[k], currentDate, filtered)]
      present     == Cardinality({k \in 1..Len(teachers) : points[k] = 100})
  IN  [label |-> toString(day), points |-> points,
       overall |-> IF Len(teachers) > 0 THEN roundPercent(present, Len(teachers)) ELSE 0]

\* one pass of the loop over the days of a month
trendDay(startDate, day, filtered) ==
  LET currentDate == newDate(getFullYear(startDate), getMonth(startDate), day)
      points      == [k \in 1..Len(teachers) |-> teacherDay(teachers[k], currentDate, filtered)]
      work        == Cardinality({k \in 1..Len(teachers) : points[k] # null})
      present     == Cardinality({k \in 1..Len(teachers) : points[k] = 100})
  IN  [label |-> toString(day), points |-> points,
       overall |-> IF work > 0 THEN roundPercent(present, work) ELSE 0]

\* the passes of the loop of the trend, in order: over the months startM..endM of a long
\* period, over the days 1..daysInMonth of a month
trendSteps(p) ==
  LET r        == periodRange(p)
      filtered == filteredRecords(p)
  IN  IF isLongPeriod(p)
        THEN LET startM == getMonth(r.startDate)
                 endM   == getMonth(r.endDate)
             IN  [i \in 1..(IF endM >= startM THEN endM - startM + 1 ELSE 0) |-> trendMonth(startM + i - 1, filtered)]
        ELSE [day \in 1..getDate(r.endDate) |-> trendDay(r.startDate, day, filtered)]

RECURSIVE trendPushesNoGaps(_, _)
\* pushes that leave the gaps out: a day that is no work day of the teacher pushes nothing
trendPushesNoGaps(id, steps) ==
  IF steps = <<>> THEN <<>>
  ELSE LET step == Head(steps)
           own  == SelectSeq([k \in 1..Len(teachers) |-> k], LAMBDA k : teachers[k].id = id /\ step.points[k] # null)
       IN  [j \in 1..Len(own) |-> step.points[own[j]]]
           \o (IF id = overallKey THEN <<step.overall>> ELSE <<>>)
           \o trendPushesNoGaps(id, Tail(steps))

RECURSIVE trendPushes(_, _)
\* what the passes push to datasets[id], in order: in each pass every teacher whose id is
\* id pushes its point, and the pass ends with the push to datasets['overall']
trendPushes(id, steps) ==
  IF steps = <<>> THEN <<>>
  ELSE LET step == Head(steps)
           own  == SelectSeq([k \in 1..Len(teachers) |-> k], LAMBDA k : teachers[k].id = id)
       IN  [j \in 1..Len(own) |-> step.points[own[j]]]
           \o (IF id = overallKey THEN <<step.overall>> ELSE <<>>)
           \o trendPushes(id, Tail(steps))

\* trend: labels and datasets, keyed by 'overall' and by the id of every teacher
trend(p) ==
  LET steps == trendSteps(p)
  IN  [labels   |-> [i \in 1..Len(steps) |-> steps[i].label],
       datasets |-> [id \in {overallKey} \cup {teachers[k].id : k \in 1..Len(teachers)} |-> trendPushes(id, steps)]]

-----------------------------------------------------------------------------
(* AttendancePage: the monthly grid *)

gridYear == getFullYear(gridCurrentDate)

gridMonth == getMonth(gridCurrentDate)

daysInMonth == getDate(newDate(gridYear, gridMonth + 1, 0))

monthString == toString(gridYear) \o <<"-">> \o padStart(toString(gridMonth + 1), 2, "0")

attendanceData == SelectSeq(attendanceRecords, LAMBDA r : startsWith(r.date, monthString))

\* getRecord: the index in attendanceData of the record of the teacher on the day (0: none)
getRecord(teacherId, day) ==
  LET dateString == monthString \o <<"-">> \o padStart(toString(day), 2, "0")
  IN  findIndex([k \in 1..Len(attendanceData) |-> attendanceData[k].teacherId = teacherId /\ attendanceData[k].date = dateString])

\* one pass of the body of getSummary's loop: what the day adds to the counters
gridDayCount(teacher, day) ==
  LET date      == newDate(gridYear, gridMonth, day)
      isWorking == isTeacherWorkDayAttendance(teacher, date, calendarSettings)
      record    == getRecord(teacher.id, day)
  IN  [workDays |-> IF isWorking THEN 1 ELSE 0,
       S |-> IF record # 0 /\ attendanceData[record].status = SICK THEN 1 ELSE 0,
       I |-> IF record # 0 /\ attendanceData[record].status = PERMIT THEN 1 ELSE 0,
       A |-> IF record # 0
               THEN (IF attendanceData[record].status = ABSENT THEN 1 ELSE 0)
               ELSE (IF isWorking /\ date < today THEN 1 ELSE 0)]

RECURSIVE gridCountDays(_, _, _)
\* for (let day = 1; day <= daysInMonth; day++)
gridCountDays(teacher, day, acc) ==
  IF day <= daysInMonth
    THEN LET c == gridDayCount(teacher, day)
         IN  gridCountDays(teacher, day + 1,
                           [workDays |-> acc.workDays + c.workDays, S |-> acc.S + c.S, I |-> acc.I + c.I, A |-> acc.A + c.A])
    ELSE acc

\* the text of a template literal `${n}%` for an integer n
percentText(n) == (IF n < 0 THEN <<"-">> \o toString(0 - n) ELSE toString(n)) \o <<"%">>

getSummary(teacher) ==
  LET summary      == gridCountDays(teacher, 1, [workDays |-> 0, S |-> 0, I |-> 0, A |-> 0])
      totalAbsence == summary.S + summary.I + summary.A
      presentDays  == summary.workDays - totalAbsence
  IN  [S |-> summary.S, I |-> summary.I, A |-> summary.A, workDays |-> summary.workDays,
       presentDays |-> presentDays,
       presencePercentage |-> IF summary.workDays > 0
                                THEN percentText(roundPercent(presentDays, summary.workDays))
                                ELSE <<"0", "%">>]

-----------------------------------------------------------------------------
(* Event handlers *)

\* Date.prototype.toISOString, to the hour: YYYY-MM-DDTHH:00:00.000Z, in UTC
toISOString(t) ==
  LET c == CivilFromDays(t \div HoursPerDay)
  IN  toString(c.year) \o <<"-">> \o padStart(toString(c.month), 2, "0") \o <<"-">> \o padStart(toString(c.day), 2, "0")
      \o <<"T">> \o padStart(toString(t % HoursPerDay), 2, "0") \o <<":", "0", "0", ":", "0", "0", ".", "0", "0", "0", "Z">>

\* JSON.stringify of an attendance record: a property whose value is undefined is left out
stringifyRecord(r) ==
  IF r.checkIn = undefined /\ r.checkOut = undefined
    THEN [id |-> r.id, teacherId |-> r.teacherId, date |-> r.date, status |-> r.status]
  ELSE IF r.checkIn = undefined
    THEN [id |-> r.id, teacherId |-> r.teacherId, date |-> r.date, status |-> r.status, checkOut |-> r.checkOut]
  ELSE IF r.checkOut = undefined
    THEN [id |-> r.id, teacherId |-> r.teacherId, date |-> r.date, status |-> r.status, checkIn |-> r.checkIn]
  ELSE r

\* JSON.stringify(state), as the value the text denotes
stringify(state) ==
  [teachers |-> state.teachers,
   attendanceRecords |-> [k \in 1..Len(state.attendanceRecords) |-> stringifyRecord(state.attendanceRecords[k])],
   calendarSettings |-> state.calendarSettings]

\* a store that goes back to the state before the handler when the write fails
DispatchRollback(actions) ==
  LET s    == reduceAll(State, actions)
      kept == IF storageAvailable THEN s ELSE State
  IN  /\ teachers' = kept.teachers
      /\ attendanceRecords' = kept.attendanceRecords
      /\ calendarSettings' = kept.calendarSettings
      /\ schedules' = kept.teachers
      /\ events' = events + 1
      /\ writeArgument' = s
      /\ IF storageAvailable
           THEN localStorage' = stringify(s) /\ writeOutcome' = "written"
           ELSE localStorage' = localStorage /\ writeOutcome' = "caught"
      /\ UNCHANGED <<now, tz, period, periodOptions, gridCurrentDate, storageAvailable>>

\* what one handler's dispatches make of the store, and the run of AppProvider's effect
\* that follows the render: localStorage.setItem('attendanceApp', JSON.stringify(state))
\* in a try whose catch only logs.  Every page but the schedule page is then the one
\* mounted, and the schedule page starts from a copy of the teachers
Dispatch(actions) ==
  LET s == reduceAll(State, actions)
  IN  /\ teachers' = s.teachers
      /\ attendanceRecords' = s.attendanceRecords
      /\ calendarSettings' = s.calendarSettings
      /\ schedules' = s.teachers
      /\ events' = events + 1
      /\ writeArgument' = s
      /\ IF storageAvailable
           THEN localStorage' = stringify(s) /\ writeOutcome' = "written"
           ELSE localStorage' = localStorage /\ writeOutcome' = "caught"
      /\ UNCHANGED <<now, tz, period, periodOptions, gridCurrentDate, storageAvailable>>

\* TeacherForm.handleSubmit for a new teacher (no teacher prop), then handleSaveTeacher
newTeacher(name, subject) ==
  [id |-> toISOString(now), name |-> name, subject |-> subject, profilePicture |-> "", workDays |-> <<1, 2, 3, 4, 5>>]

\* TeacherForm.handleSubmit for the teacher being edited
editedTeacher(teacher, name, subject) ==
  [id |-> teacher.id, name |-> name, subject |-> subject, profilePicture |-> teacher.profilePicture, workDays |-> teacher.workDays]

\* a save that always dispatches ADD_TEACHER
handleSaveTeacherAlwaysAdd(teacher) == Dispatch(<<[type |-> "ADD_TEACHER", payload |-> teacher]>>)

handleSaveTeacher(teacher) ==
  IF some([k \in 1..Len(teachers) |-> teachers[k].id = teacher.id])
    THEN Dispatch(<<[type |-> "UPDATE_TEACHER", payload |-> teacher]>>)
    ELSE Dispatch(<<[type |-> "ADD_TEACHER", payload |-> teacher]>>)

AddTeacher(name, subject) ==
  /\ Len(teachers) < MaxTeachers
  /\ name # "" /\ subject # ""
  /\ handleSaveTeacher(newTeacher(name, subject))

EditTeacher(i, name, subject) ==
  /\ name # "" /\ subject # ""
  /\ handleSaveTeacher(editedTeacher(teachers[i], name, subject))

handleDeleteTeacher(id) == Dispatch(<<[type |-> "DELETE_TEACHER", payload |-> id]>>)

\* DaySettingsModal.handleSave for the day the modal was opened on
handleSave(day, dayType, description) ==
  LET dateString == toLocalDateString(day)
      setting    == [date |-> dateString, type |-> dayType, description |-> description]
  IN  Dispatch(<<[type |-> "SET_CALENDAR_DAY", payload |-> setting]>>)

\* the record both attendance modals build
attendanceRecord(teacherId, dateString, status, checkIn, checkOut) ==
  [id |-> teacherId \o <<"-">> \o dateString, teacherId |-> teacherId, date |-> dateString, status |-> status,
   checkIn |-> IF status = PRESENT THEN checkIn ELSE undefined,
   checkOut |-> IF status = PRESENT THEN checkOut ELSE undefined]

\* handleCellClick on a cell of the grid, then IndividualAttendanceModal.handleSubmit
SubmitIndividual(teacher, day, status, checkIn, checkOut) ==
  LET date == newDate(gridYear, gridMonth, day)
  IN  /\ isTeacherWorkDayAttendance(teacher, date, calendarSettings)
      /\ Dispatch(<<[type |-> "UPSERT_ATTENDANCE",
                     payload |-> <<attendanceRecord(teacher.id, toLocalDateString(date), status, checkIn, checkOut)>>]>>)

RECURSIVE massTeachersAnyDay(_, _, _, _, _)
\* a forEach that records the day for every selected teacher of the list, work day or not
massTeachersAnyDay(selected, d, status, checkIn, checkOut) ==
  IF selected = <<>> THEN <<>>
  ELSE LET teacherId == Head(selected)
           teacher   == findIndex([k \in 1..Len(teachers) |-> teachers[k].id = teacherId])
           rest      == massTeachersAnyDay(Tail(selected), d, status, checkIn, checkOut)
       IN  IF teacher # 0
             THEN <<attendanceRecord(teacherId, toLocalDateString(d), status, checkIn, checkOut)>> \o rest
             ELSE rest

RECURSIVE massTeachers(_, _, _, _, _)
\* selectedTeachers.forEach for one day d of the range
massTeachers(selected, d, status, checkIn, checkOut) ==
  IF selected = <<>> THEN <<>>
  ELSE LET teacherId == Head(selected)
           teacher   == findIndex([k \in 1..Len(teachers) |-> teachers[k].id = teacherId])
           rest      == massTeachers(Tail(selected), d, status, checkIn, checkOut)
       IN  IF teacher # 0 /\ isTeacherWorkDayAttendance(teachers[teacher], d, calendarSettings)
             THEN <<attendanceRecord(teacherId, toLocalDateString(d), status, checkIn, checkOut)>> \o rest
             ELSE rest

RECURSIVE massDays(_, _, _, _, _, _)
\* for (let d = new Date(start); d <= end; d.setDate(d.getDate() + 1))
massDays(selected, d, end, status, checkIn, checkOut) ==
  IF d <= end
    THEN massTeachers(selected, d, status, checkIn, checkOut) \o massDays(selected, setDateNext(d), end, status, checkIn, checkOut)
    ELSE <<>>

\* MassAttendanceModal.handleSubmit
SubmitMass(selectedTeachers, startDate, endDate, status, checkIn, checkOut) ==
  LET start           == fromLocalDateString(startDate)
      end             == fromLocalDateString(endDate)
      recordsToUpsert == massDays(selectedTeachers, start, end, status, checkIn, checkOut)
  IN  IF Len(recordsToUpsert) > 0
        THEN Dispatch(<<[type |-> "UPSERT_ATTENDANCE", payload |-> recordsToUpsert]>>)
        ELSE UNCHANGED vars

\* a caller of the store dispatching UPSERT_ATTENDANCE with a payload of its own
DispatchUpsert(payload) ==
  Dispatch(<<[type |-> "UPSERT_ATTENDANCE", payload |-> payload]>>)

\* WorkSchedulePage.handleScheduleChange: the checkbox of dayValue in the teacher's row is clicked
handleScheduleChange(teacherId, dayValue) ==
  /\ schedules' = [k \in 1..Len(schedules) |->
                    LET teacher == schedules[k]
                    IN  IF teacher.id = teacherId
                          THEN LET isChecked   == ~includes(teacher.workDays, dayValue)
                                   newWorkDays == IF isChecked
                                                    THEN (IF ~includes(teacher.workDays, dayValue)
                                                            THEN Append(teacher.workDays, dayValue) ELSE teacher.workDays)
                                                    ELSE SelectSeq(teacher.workDays, LAMBDA day : day # dayValue)
                               IN  [teacher EXCEPT !.workDays = sortNumbers(newWorkDays)]
                          ELSE teacher]
  /\ UNCHANGED <<teachers, attendanceRecords, calendarSettings, now, tz, period, periodOptions, gridCurrentDate, events,
                 localStorage, storageAvailable, writeOutcome, writeArgument>>

\* WorkSchedulePage.handleSaveSchedules; the effect then copies the new teachers
handleSaveSchedules ==
  Dispatch([k \in 1..Len(schedules) |->
             [type |-> "UPDATE_TEACHER_SCHEDULE",
              payload |-> [teacherId |-> schedules[k].id, workDays |-> schedules[k].workDays]]])

\* DashboardPage mounts: the options are generated and the default period selected
MountDashboard ==
  /\ periodOptions' = generatePeriodOptions.options
  /\ period' = generatePeriodOptions.default
  /\ UNCHANGED <<teachers, attendanceRecords, calendarSettings, schedules, now, tz, gridCurrentDate, events,
                 localStorage, storageAvailable, writeOutcome, writeArgument>>

\* the period select of the Dashboard changes
setPeriod(value) ==
  /\ period' = value
  /\ UNCHANGED <<teachers, attendanceRecords, calendarSettings, schedules, now, tz, periodOptions, gridCurrentDate, events,
                 localStorage, storageAvailable, writeOutcome, writeArgument>>

\* localStorage fills up or is cleared, is switched off or on: setItem starts or stops
\* throwing
StorageChanges ==
  /\ storageAvailable' = ~storageAvailable
  /\ UNCHANGED <<teachers, attendanceRecords, calendarSettings, schedules, now, tz, period, periodOptions, gridCurrentDate, events,
                 localStorage, writeOutcome, writeArgument>>

\* a day passes (start: the clock when the application started)
Tick(start) ==
  /\ now < start + MaxTicks * HoursPerDay
  /\ now' = now + HoursPerDay
  /\ UNCHANGED <<teachers, attendanceRecords, calendarSettings, schedules, tz, period, periodOptions, gridCurrentDate, events,
                 localStorage, storageAvailable, writeOutcome, writeArgument>>

-----------------------------------------------------------------------------
(* The application *)

FormNames == {"Guru Baru"}
FormSubjects == {"Matematika"}

\* the days of the grid's month that are clicked: its first and its last
ClickDays == {1, 29}

\* the days the calendar modal is opened on in Spec: Thursday 2024-02-01
CalendarDays == {newDate(2024, 1, 1)}

\* the weekdays whose checkbox is clicked on the schedule page: Thursday
ToggleDays == {4}

\* the dates entered in the mass modal: Thursday 2024-02-29
MassDates == {toLocalDateString(newDate(2024, 1, 29))}

\* the selections of the mass modal: every teacher, or one
MassSelections == {[k \in 1..Len(teachers) |-> teachers[k].id]} \cup {<<teachers[i].id>> : i \in 1..Len(teachers)}

\* payloads that name one (teacher, date) pair twice: SICK, then PRESENT from 08:30
TwicePayloads ==
  {<<attendanceRecord(teachers[i].id, toLocalDateString(newDate(gridYear, gridMonth, 29)), SICK, "07:00", "15:00"),
     attendanceRecord(teachers[i].id, toLocalDateString(newDate(gridYear, gridMonth, 29)), PRESENT, "08:30", "15:00")>> :
       i \in 1..Len(teachers)}

\* the store as getInitialState returns it from a stored state of two teachers with no
\* record and no calendar setting, and the pages as they mount at the time start
InitAt(start) ==
  /\ tz \in TzOffsets
  /\ now = start
  /\ teachers = initialTeachers
  /\ attendanceRecords = <<>>
  /\ calendarSettings = <<>>
  /\ schedules = initialTeachers
  /\ periodOptions = generatePeriodOptions.options
  /\ period = generatePeriodOptions.default
  /\ gridCurrentDate = now
  /\ events = 0
  /\ storageAvailable = TRUE
  /\ localStorage = stringify(State)
  /\ writeOutcome = "written"
  /\ writeArgument = State

Init == InitAt(NowStart)

RECURSIVE weekendsOfMonth(_, _, _)
\* for (let day = 1; day <= 31; day++): a WEEKEND setting for every Saturday and Sunday of
\* the month; a day the month does not have is skipped
weekendsOfMonth(year, month, day) ==
  IF day > 31 THEN <<>>
  ELSE LET date      == newDate(year, month, day)
           dayOfWeek == getDay(date)
       IN  (IF getMonth(date) = month /\ (dayOfWeek = 0 \/ dayOfWeek = 6)
              THEN <<[date |-> toLocalDateString(date), type |-> WEEKEND]>> ELSE <<>>)
           \o weekendsOfMonth(year, month, day + 1)

RECURSIVE defaultWeekends(_, _)
\* for (let month = 0; month < 12; month++)
defaultWeekends(year, month) ==
  IF month >= 12 THEN <<>> ELSE weekendsOfMonth(year, month, 1) \o defaultWeekends(year, month + 1)

\* getInitialState with nothing stored: the initial teachers and the weekends of the
\* current year
getInitialState ==
  [teachers |-> initialTeachers, attendanceRecords |-> <<>>,
   calendarSettings |-> defaultWeekends(getFullYear(now), 0)]

\* the application starts with nothing stored
InitBootstrap ==
  /\ tz \in TzOffsets
  /\ now = NowStart
  /\ teachers = getInitialState.teachers
  /\ attendanceRecords = getInitialState.attendanceRecords
  /\ calendarSettings = getInitialState.calendarSettings
  /\ schedules = teachers
  /\ periodOptions = generatePeriodOptions.options
  /\ period = generatePeriodOptions.default
  /\ gridCurrentDate = now
  /\ events = 0
  /\ storageAvailable = TRUE
  /\ localStorage = stringify(State)
  /\ writeOutcome = "written"
  /\ writeArgument = State

-----------------------------------------------------------------------------
(* Startup from what the storage holds.  The item 'attendanceApp' is modelled by the
   value its text denotes: [missing |-> TRUE] when getItem returns null,
   [unparseable |-> TRUE] when JSON.parse throws, and otherwise the parsed object with
   the keys it has; a teachers key that holds a text instead of a list is the key
   teachersText. *)

\* const initialState: the empty store
initialState == [teachers |-> <<>>, attendanceRecords |-> <<>>, calendarSettings |-> <<>>]

\* the catch of getInitialState: the initial teachers and no calendar setting
getInitialStateCaught ==
  [teachers |-> initialTeachers, attendanceRecords |-> initialState.attendanceRecords, calendarSettings |-> <<>>]

\* ({ ...t, workDays: [1, 2, 3, 4, 5] })
withDefaultWorkDays(t) ==
  [id |-> t.id, name |-> t.name, subject |-> t.subject, profilePicture |-> t.profilePicture, workDays |-> <<1, 2, 3, 4, 5>>]

\* the migration of getInitialState: when the FIRST teacher has no workDays, every teacher
\* is mapped to the default work days
migrateByFirst(list) ==
  IF Len(list) > 0 /\ "workDays" \notin DOMAIN list[1]
    THEN [k \in 1..Len(list) |-> withDefaultWorkDays(list[k])]
    ELSE list

\* getInitialState, for the item the storage holds.  A text in parsed.teachers is truthy
\* when not empty, has a length and a first character without workDays, and no map:
\* the TypeError ends in the catch
getInitialStateOf(storedState) ==
  IF "missing" \in DOMAIN storedState THEN getInitialState
  ELSE IF "unparseable" \in DOMAIN storedState THEN getInitialStateCaught
  ELSE LET parsed == storedState
       IN  IF "teachersText" \in DOMAIN parsed
             THEN IF Len(parsed.teachersText) > 0 THEN getInitialStateCaught ELSE getInitialState
           ELSE IF "teachers" \notin DOMAIN parsed THEN getInitialState
           ELSE LET migrated == migrateByFirst(parsed.teachers)
                IN  IF Len(migrated) > 0 THEN [parsed EXCEPT !.teachers = migrated] ELSE getInitialState

\* the pages read state.teachers, state.attendanceRecords and state.calendarSettings with
\* map, filter and find, and teacher.workDays with includes: the first render throws when
\* one of them is undefined
renders(state) ==
  /\ {"teachers", "attendanceRecords", "calendarSettings"} \subseteq DOMAIN state
  /\ \A k \in 1..Len(state.teachers) : "workDays" \in DOMAIN state.teachers[k]

\* a record as the pages read it from the parsed object: a key the text did not have reads
\* as undefined
readRecord(r) ==
  [id |-> r.id, teacherId |-> r.teacherId, date |-> r.date, status |-> r.status,
   checkIn |-> IF "checkIn" \in DOMAIN r THEN r.checkIn ELSE undefined,
   checkOut |-> IF "checkOut" \in DOMAIN r THEN r.checkOut ELSE undefined]

\* the three collections of a state object as the pages read them; one the object does
\* not have is undefined and is held as no element: the render that reads it throws
\* (writeOutcome "crashed")
readState(state) ==
  [teachers |-> IF "teachers" \in DOMAIN state THEN state.teachers ELSE <<>>,
   attendanceRecords |-> IF "attendanceRecords" \in DOMAIN state
                           THEN [k \in 1..Len(state.attendanceRecords) |-> readRecord(state.attendanceRecords[k])]
                           ELSE <<>>,
   calendarSettings |-> IF "calendarSettings" \in DOMAIN state THEN state.calendarSettings ELSE <<>>]

\* AppProvider mounts: useReducer(appReducer, getInitialState()), the first render, and
\* after a render that did not throw the effect's write of the state
Startup ==
  /\ writeOutcome = "unmounted"
  /\ LET s == getInitialStateOf(localStorage)
     IN  /\ teachers' = readState(s).teachers
         /\ attendanceRecords' = readState(s).attendanceRecords
         /\ calendarSettings' = readState(s).calendarSettings
         /\ schedules' = readState(s).teachers
         /\ IF ~renders(s)
              THEN localStorage' = localStorage /\ writeOutcome' = "crashed" /\ writeArgument' = writeArgument
            ELSE IF storageAvailable
              THEN localStorage' = stringify(readState(s)) /\ writeOutcome' = "written" /\ writeArgument' = readState(s)
              ELSE localStorage' = localStorage /\ writeOutcome' = "caught" /\ writeArgument' = readState(s)
  /\ UNCHANGED <<now, tz, period, periodOptions, gridCurrentDate, events, storageAvailable>>

\* the page is closed or reloaded: the store is gone, the storage stays
Reload ==
  /\ writeOutcome # "unmounted"
  /\ teachers' = initialState.teachers
  /\ attendanceRecords' = initialState.attendanceRecords
  /\ calendarSettings' = initialState.calendarSettings
  /\ schedules' = <<>>
  /\ writeOutcome' = "unmounted"
  /\ UNCHANGED <<now, tz, period, periodOptions, gridCurrentDate, events, localStorage, storageAvailable, writeArgument>>

\* teachers as versions before the work schedule stored them (no workDays) and as the
\* current version stores them, here with a schedule of their own
StoredTeacher(k, legacy) ==
  LET id == <<"t", "-">> \o toString(k)
  IN  IF legacy
        THEN [id |-> id, name |-> "Guru", subject |-> "Belum diatur", profilePicture |-> ""]
        ELSE [id |-> id, name |-> "Guru", subject |-> "Belum diatur", profilePicture |-> "", workDays |-> <<k, 6>>]

\* the longest list of teachers the storage holds at startup
MaxStored == 3

\* the lists of up to MaxStored teachers, each one legacy or not
StoredTeachers ==
  UNION {{[k \in 1..n |-> StoredTeacher(k, legacy[k])] : legacy \in [1..n -> BOOLEAN]} : n \in 0..MaxStored}

\* what the storage may hold when the application starts
StoredStates ==
  {[missing |-> TRUE], [unparseable |-> TRUE]}
    \cup {[teachers |-> list, attendanceRecords |-> <<>>, calendarSettings |-> <<>>] : list \in StoredTeachers}
    \cup {[teachers |-> initialTeachers, calendarSettings |-> <<>>],
          [teachers |-> initialTeachers, attendanceRecords |-> <<>>],
          [attendanceRecords |-> <<>>, calendarSettings |-> <<>>],
          [teachersText |-> <<"a", "b", "c">>, attendanceRecords |-> <<>>, calendarSettings |-> <<>>]}

\* the application is about to start on what an earlier run, an earlier version or
\* anything else left in the storage
InitLoad ==
  /\ tz \in TzOffsets
  /\ now = NowStart
  /\ teachers = initialState.teachers
  /\ attendanceRecords = initialState.attendanceRecords
  /\ calendarSettings = initialState.calendarSettings
  /\ schedules = <<>>
  /\ periodOptions = generatePeriodOptions.options
  /\ period = generatePeriodOptions.default
  /\ gridCurrentDate = now
  /\ events = 0
  /\ storageAvailable = TRUE
  /\ localStorage \in StoredStates
  /\ writeOutcome = "unmounted"
  /\ writeArgument = initialState

ClickAddTeacher == \E name \in FormNames, subject \in FormSubjects : AddTeacher(name, subject)

ClickEditTeacher ==
  \E i \in 1..Len(teachers), name \in FormNames, subject \in FormSubjects : EditTeacher(i, name, subject)

\* the teacher form submitted with a name of the given set, for a new teacher and for
\* the teacher of a row
ClickAddTeacherOf(names) == \E name \in names, subject \in FormSubjects : AddTeacher(name, subject)

ClickEditTeacherOf(names) ==
  \E i \in 1..Len(teachers), name \in names, subject \in FormSubjects : EditTeacher(i, name, subject)

ClickDeleteTeacher == \E i \in 1..Len(teachers) : handleDeleteTeacher(teachers[i].id)

ClickSubmitIndividual ==
  \E i \in 1..Len(teachers), day \in ClickDays, status \in AttendanceStatus :
    SubmitIndividual(teachers[i], day, status, "07:00", "15:00")

ClickSubmitMass ==
  \E selected \in MassSelections, startDate \in MassDates, endDate \in MassDates, status \in AttendanceStatus :
    SubmitMass(selected, startDate, endDate, status, "07:00", "15:00")

\* the selection of the mass modal after handleSelectAll(true)
EverySelection == {[k \in 1..Len(teachers) |-> teachers[k].id]}

\* the selections of the mass modal with one teacher ticked
SingleSelections == {<<teachers[i].id>> : i \in 1..Len(teachers)}

\* the mass modal submitted with a selection, dates and a status of the given sets
ClickSubmitMassOf(selections, dates, statuses) ==
  \E selected \in selections, startDate \in dates, endDate \in dates, status \in statuses :
    SubmitMass(selected, startDate, endDate, status, "07:00", "15:00")

UpsertTwice == \E payload \in TwicePayloads : DispatchUpsert(payload)

ClickSaveDay(days) == \E day \in days, dayType \in DayType : handleSave(day, dayType, "")

ClickScheduleBox(dayValues) ==
  \E i \in 1..Len(schedules), dayValue \in dayValues : handleScheduleChange(schedules[i].id, dayValue)

Next ==
  \/ events < MaxEvents /\ ClickAddTeacher
  \/ events < MaxEvents /\ ClickEditTeacher
  \/ events < MaxEvents /\ ClickDeleteTeacher
  \/ events < MaxEvents /\ ClickSubmitIndividual
  \/ events < MaxEvents /\ ClickSubmitMass
  \/ events < MaxEvents /\ UpsertTwice
  \/ events < MaxEvents /\ ClickSaveDay(CalendarDays)
  \/ events < MaxEvents /\ handleSaveSchedules
  \/ ClickScheduleBox(ToggleDays)
  \/ Tick(NowStart)

Spec == Init /\ [][Next]_vars

-----------------------------------------------------------------------------
(* The period resolver on the tokens a caller may hand it *)

\* tokens of none of the four shapes: a fifth quarter, a third semester, a thirteenth
\* month, a month zero, a letter for the unit, and the empty string
OtherTokens ==
  {<<"2", "0", "2", "4", "-", "q", "5">>, <<"2", "0", "2", "4", "-", "s", "3">>,
   <<"2", "0", "2", "4", "-", "1", "3">>, <<"2", "0", "2", "4", "-", "0", "0">>,
   <<"2", "0", "2", "4", "-", "x", "1">>, <<>>}

NextResolver ==
  \/ \E i \in 1..Len(periodOptions) : setPeriod(periodOptions[i])
  \/ \E value \in OtherTokens : setPeriod(value)
  \/ Tick(NowStart)

SpecResolver == Init /\ [][NextResolver]_vars

-----------------------------------------------------------------------------
(* What the overall figures read: the individual submissions, the roster and the clock *)

NextOverall ==
  \/ events < MaxEvents /\ ClickSubmitIndividual
  \/ events < MaxEvents /\ ClickDeleteTeacher
  \/ Tick(NowStart)

SpecOverall == Init /\ [][NextOverall]_vars

-----------------------------------------------------------------------------
(* The store under the handlers of the teachers, attendance and calendar pages *)

NextStore ==
  \/ events < MaxEvents /\ ClickAddTeacher
  \/ events < MaxEvents /\ ClickDeleteTeacher
  \/ events < MaxEvents /\ ClickSubmitIndividual
  \/ events < MaxEvents /\ ClickSaveDay(CalendarDays)

SpecStore == Init /\ [][NextStore]_vars

-----------------------------------------------------------------------------
(* The store and localStorage *)

NextStorage ==
  \/ events < MaxEvents /\ ClickSubmitIndividual
  \/ events < MaxEvents /\ ClickDeleteTeacher
  \/ StorageChanges

SpecStorage == Init /\ [][NextStorage]_vars

-----------------------------------------------------------------------------
(* The attendance ledger alone: the submissions of the attendance page *)

NextLedger ==
  \/ events < MaxUpserts /\ ClickSubmitIndividual
  \/ events < MaxUpserts /\ ClickSubmitMass
  \/ events < MaxUpserts /\ UpsertTwice

SpecLedger == Init /\ [][NextLedger]_vars

-----------------------------------------------------------------------------
(* What the summaries read: the individual submissions, the calendar, the saved
   schedules and the clock *)

NextSummary ==
  \/ events < MaxEvents /\ ClickSubmitIndividual
  \/ events < MaxEvents /\ ClickSaveDay(CalendarDays)
  \/ events < MaxEvents /\ handleSaveSchedules
  \/ ClickScheduleBox(ToggleDays)
  \/ Tick(NowStart)

SpecSummary == Init /\ [][NextSummary]_vars

-----------------------------------------------------------------------------
(* What one day of the daily trend reads: the individual submissions and the saved
   schedules *)

NextDaily ==
  \/ events < MaxEvents /\ ClickSubmitIndividual
  \/ events < MaxEvents /\ handleSaveSchedules
  \/ ClickScheduleBox(ToggleDays)

SpecDaily == Init /\ [][NextDaily]_vars

-----------------------------------------------------------------------------
(* The calendar and the schedules alone: what the work-day predicate reads *)

\* the days the calendar modal is opened on: Saturday 2024-02-03, Tuesday 2024-02-06
\* and Wednesday 2024-02-07
CalendarDaysWide == {newDate(2024, 1, 3), newDate(2024, 1, 6), newDate(2024, 1, 7)}

\* the weekdays whose checkbox is clicked: Saturday
ToggleDaysWide == {6}

NextCalendar ==
  \/ events < MaxSaves /\ ClickSaveDay(CalendarDaysWide)
  \/ events < MaxSaves /\ handleSaveSchedules
  \/ ClickScheduleBox(ToggleDaysWide)

SpecCalendar == Init /\ [][NextCalendar]_vars

-----------------------------------------------------------------------------
(* The calendar page on the bootstrap state *)

NextBootstrap ==
  \/ events < MaxSaves /\ ClickSaveDay(CalendarDaysWide)
  \/ Tick(NowStart)

SpecBootstrap == InitBootstrap /\ [][NextBootstrap]_vars

-----------------------------------------------------------------------------
(* The Dashboard's period select, over the turn of the year *)

\* the clock when the application starts: 08:00 local on Sunday 2023-12-31
YearEnd == newDate(2023, 11, 31) + 8

InitPeriod == InitAt(YearEnd)

NextPeriod ==
  \/ MountDashboard
  \/ \E i \in 1..Len(periodOptions) : setPeriod(periodOptions[i])
  \/ Tick(YearEnd)

SpecPeriod == InitPeriod /\ [][NextPeriod]_vars

-----------------------------------------------------------------------------
(* The Dashboard's period select over the turn of the year, and the roster *)

NextTrend ==
  \/ MountDashboard
  \/ \E i \in 1..Len(periodOptions) : setPeriod(periodOptions[i])
  \/ Tick(YearEnd)
  \/ events < MaxEvents /\ ClickDeleteTeacher

SpecTrend == InitPeriod /\ [][NextTrend]_vars

-----------------------------------------------------------------------------
(* Startup, mutations and reloads *)

NextLoad ==
  \/ Startup
  \/ Reload
  \/ writeOutcome = "written" /\ events < MaxEvents /\ ClickDeleteTeacher
  \/ writeOutcome = "written" /\ events < MaxEvents /\ ClickSubmitIndividual
  \/ writeOutcome = "written" /\ events < MaxEvents /\ ClickSaveDay(CalendarDays)

SpecLoad == InitLoad /\ [][NextLoad]_vars

-----------------------------------------------------------------------------
(* The Dashboard on the first day of a month *)

\* the clock when the application starts: 08:00 local on Thursday 2024-02-01
FebruaryFirst == newDate(2024, 1, 1) + 8

NextFebruary ==
  \/ \E i \in 1..Len(periodOptions) : setPeriod(periodOptions[i])
  \/ Tick(FebruaryFirst)
  \/ events < MaxSaves /\ ClickSaveDay(CalendarDays)

SpecFebruary == InitAt(FebruaryFirst) /\ [][NextFebruary]_vars

-----------------------------------------------------------------------------
(* The schedule page and the teachers page *)

\* the weekdays whose checkbox is clicked: Sunday, Wednesday
NextSchedule ==
  \/ ClickScheduleBox({0, 3})
  \/ events < MaxEvents /\ handleSaveSchedules
  \/ events < MaxEvents /\ ClickEditTeacher
  \/ events < MaxEvents /\ ClickAddTeacher
  \/ events < MaxEvents /\ ClickDeleteTeacher

SpecSchedule == Init /\ [][NextSchedule]_vars

-----------------------------------------------------------------------------
(* A month of mass attendance, the schedule page and the Dashboard's percentages *)

\* the dates entered in the mass modal: the first and the last day of February 2024
MonthDates == {toLocalDateString(newDate(2024, 1, 1)), toLocalDateString(newDate(2024, 1, 29))}

\* the periods selected on the Dashboard: the month and its quarter
NextPercent ==
  \/ events < MaxEvents /\ ClickSubmitMassOf(SingleSelections, MonthDates, AttendanceStatus)
  \/ events < MaxEvents /\ ClickSaveDay(CalendarDays)
  \/ events < MaxEvents /\ handleSaveSchedules
  \/ ClickScheduleBox(ToggleDays)
  \/ \E i \in 1..Len(periodOptions) : periodOptions[i] \in {<<"2", "0", "2", "4", "-", "0", "2">>, <<"2", "0", "2", "4", "-", "q", "1">>} /\ setPeriod(periodOptions[i])

SpecPercent == Init /\ [][NextPercent]_vars

-----------------------------------------------------------------------------
(* Records, calendar days and the Dashboard's totals *)

\* the periods selected on the Dashboard: the month of the records and the month before
NextTotals ==
  \/ events < MaxEvents /\ ClickSubmitIndividual
  \/ events < MaxEvents /\ ClickSaveDay(CalendarDays)
  \/ \E i \in 1..Len(periodOptions) : periodOptions[i] \in {<<"2", "0", "2", "4", "-", "0", "2">>, <<"2", "0", "2", "4", "-", "0", "1">>} /\ setPeriod(periodOptions[i])

SpecTotals == Init /\ [][NextTotals]_vars

-----------------------------------------------------------------------------
(* The mass modal over a weekend, with calendar days and schedules changing *)

\* the dates entered in the mass modal: Friday 2024-02-02 and Monday 2024-02-05
RangeDates == {toLocalDateString(newDate(2024, 1, 2)), toLocalDateString(newDate(2024, 1, 5))}

\* every teacher is selected and the status is PRESENT or SICK; the calendar modal is
\* opened on Monday 2024-02-05; the checkbox clicked on the schedule page is Friday's
NextMass ==
  \/ events < MaxEvents /\ ClickSubmitMassOf(EverySelection, RangeDates, {PRESENT, SICK})
  \/ events < MaxEvents /\ ClickSaveDay({newDate(2024, 1, 5)})
  \/ events < MaxEvents /\ handleSaveSchedules
  \/ ClickScheduleBox({5})

SpecMass == Init /\ [][NextMass]_vars

-----------------------------------------------------------------------------
(* The teachers page *)

\* the names entered in the teacher form
TeacherNames == {"Guru Baru", "Guru Lama"}

NextTeachers ==
  \/ events < MaxEvents /\ ClickAddTeacherOf(TeacherNames)
  \/ events < MaxEvents /\ ClickEditTeacherOf(TeacherNames)
  \/ events < MaxEvents /\ ClickDeleteTeacher
  \/ Tick(NowStart)

SpecTeachers == Init /\ [][NextTeachers]_vars

-----------------------------------------------------------------------------
(* The attendance ledger *)

SamePair(a, b) == a.teacherId = b.teacherId /\ a.date = b.date

\* C1: after any sequence of UPSERT_ATTENDANCE actions, single or bulk, a payload that
\* names one pair twice included, the ledger holds at most one record for each
\* (teacherId, date) pair
C1_AtMostOneRecordPerPair ==
  \A i, j \in 1..Len(attendanceRecords) : SamePair(attendanceRecords[i], attendanceRecords[j]) => i = j

\* two submissions were reduced, one of them the payload that names a pair twice, whose
\* second record (PRESENT from 08:30) is the one the ledger holds
C1_Witness ==
  /\ events = 2
  /\ Len(attendanceRecords) = 2
  /\ \E i \in 1..Len(attendanceRecords) :
       attendanceRecords[i].status = PRESENT /\ attendanceRecords[i].checkIn = "08:30"

\* what an upsert of one record is to make of a ledger: the record in the place of the
\* record of its pair, or at the end when its pair has none
ExpectedUpsert(ledger, record) ==
  IF \E k \in 1..Len(ledger) : SamePair(ledger[k], record)
    THEN [k \in 1..Len(ledger) |-> IF SamePair(ledger[k], record) THEN record ELSE ledger[k]]
    ELSE Append(ledger, record)

\* the record the individual modal submits: the times only with the status PRESENT
IncomingRecord(teacherId, dateString, status, checkIn, checkOut) ==
  [id |-> teacherId \o <<"-">> \o dateString, teacherId |-> teacherId, date |-> dateString, status |-> status,
   checkIn |-> IF status = PRESENT THEN checkIn ELSE undefined,
   checkOut |-> IF status = PRESENT THEN checkOut ELSE undefined]

\* the records the individual modal can submit in this state
IncomingRecords ==
  {IncomingRecord(teachers[i].id, toLocalDateString(newDate(gridYear, gridMonth, day)), status, "07:00", "15:00") :
     i \in 1..Len(teachers), day \in ClickDays, status \in AttendanceStatus}

\* the ledger after the store reduces an upsert of the one record
Upserted(ledger, record) ==
  appReducer([teachers |-> teachers, attendanceRecords |-> ledger, calendarSettings |-> calendarSettings],
             [type |-> "UPSERT_ATTENDANCE", payload |-> <<record>>]).attendanceRecords

\* C2: an upsert of a pair that has a record replaces that record whole, in its place,
\* by the incoming record (no field of the old record survives); an upsert of a pair
\* that has none appends; every other record is unchanged; and two upserts of one pair
\* leave one record of the pair, the second
C2_UpsertReplacesInPlaceOrAppends ==
  LET incoming == IncomingRecords
  IN  \A first \in incoming :
        LET once == Upserted(attendanceRecords, first)
        IN  /\ once = ExpectedUpsert(attendanceRecords, first)
            /\ \A second \in incoming :
                 SamePair(first, second) =>
                   LET twice == Upserted(once, second)
                   IN  /\ Len(twice) = Len(once)
                       /\ \A k \in 1..Len(twice) : twice[k] = IF SamePair(twice[k], second) THEN second ELSE once[k]
                       /\ \E k \in 1..Len(twice) : twice[k] = second

\* three submissions left two records, so one of them wrote a pair that had a record,
\* and the first record of the ledger is one without times
C2_Witness ==
  /\ events = 3
  /\ Len(attendanceRecords) = 2
  /\ attendanceRecords[1].status = SICK
  /\ attendanceRecords[1].checkIn = undefined
  /\ attendanceRecords[2].status = PRESENT

-----------------------------------------------------------------------------
(* The work-day predicate *)

\* the first week of February 2024, Thursday the 1st to Wednesday the 7th
ProbeDates == {newDate(2024, 1, d) : d \in 1..7}

\* schedules: none, Monday to Friday, Tuesday and Saturday, every day
ProbeWorkDays == {<<>>, <<1, 2, 3, 4, 5>>, <<2, 6>>, <<0, 1, 2, 3, 4, 5, 6>>}

\* the teachers of the store, and a teacher with each of the schedules
ProbeTeachers ==
  {teachers[i] : i \in 1..Len(teachers)} \cup {[initialTeachers[1] EXCEPT !.workDays = w] : w \in ProbeWorkDays}

\* the type of a day: that of the setting of its date, or else WEEKEND on Saturday and
\* Sunday and WORKDAY from Monday to Friday
ResolvedDayType(date) ==
  LET key == toLocalDateString(date)
  IN  IF \E k \in 1..Len(calendarSettings) : calendarSettings[k].date = key
        THEN calendarSettings[CHOOSE k \in 1..Len(calendarSettings) : calendarSettings[k].date = key].type
        ELSE IF getDay(date) \in {0, 6} THEN WEEKEND ELSE WORKDAY

\* C3: a date whose resolved day type is not WORKDAY, by a setting or by default, is a
\* work day of no teacher, whatever the teacher's workDays
C3_NonWorkdayIsNobodysWorkDay ==
  \A t \in ProbeTeachers, d \in ProbeDates :
    ResolvedDayType(d) # WORKDAY =>
      /\ ~isTeacherWorkDay(t, d, calendarSettings)
      /\ ~isTeacherWorkDayAttendance(t, d, calendarSettings)

\* Wednesday 2024-02-07 was marked NATIONAL_HOLIDAY and is not a work day of the first
\* teacher, who works on Wednesdays
C3_Witness ==
  /\ \E k \in 1..Len(calendarSettings) :
       /\ calendarSettings[k].date = toLocalDateString(newDate(2024, 1, 7))
       /\ calendarSettings[k].type = NATIONAL_HOLIDAY
  /\ Len(teachers) >= 1
  /\ \E k \in 1..Len(teachers[1].workDays) : teachers[1].workDays[k] = 3
  /\ getDay(newDate(2024, 1, 7)) = 3
  /\ ~isTeacherWorkDay(teachers[1], newDate(2024, 1, 7), calendarSettings)
  /\ ~isTeacherWorkDayAttendance(teachers[1], newDate(2024, 1, 7), calendarSettings)

\* C4: a date is a work day of a teacher exactly when its effective type (the setting's
\* type verbatim, else the weekend default) is WORKDAY and its weekday number is among
\* the teacher's workDays
C4_WorkDayIffWorkdayTypeAndScheduled ==
  \A t \in ProbeTeachers, d \in ProbeDates :
    LET expected == /\ ResolvedDayType(d) = WORKDAY
                    /\ \E k \in 1..Len(t.workDays) : t.workDays[k] = getDay(d)
    IN  /\ isTeacherWorkDayAttendance(t, d, calendarSettings) <=> expected
        /\ isTeacherWorkDay(t, d, calendarSettings) <=> expected

\* Saturday 2024-02-03 was set to WORKDAY and is a work day of a teacher of the store
\* whose saved schedule holds 6, while Tuesday 2024-02-06 was set to WEEKEND and is
\* not a work day of that teacher, who works on Tuesdays
C4_Witness ==
  \E i \in 1..Len(teachers) :
    /\ \E k \in 1..Len(teachers[i].workDays) : teachers[i].workDays[k] = 6
    /\ \E k \in 1..Len(teachers[i].workDays) : teachers[i].workDays[k] = 2
    /\ \E k \in 1..Len(calendarSettings) :
         /\ calendarSettings[k].date = toLocalDateString(newDate(2024, 1, 3))
         /\ calendarSettings[k].type = WORKDAY
    /\ getDay(newDate(2024, 1, 3)) = 6
    /\ isTeacherWorkDayAttendance(teachers[i], newDate(2024, 1, 3), calendarSettings)
    /\ isTeacherWorkDay(teachers[i], newDate(2024, 1, 3), calendarSettings)

-----------------------------------------------------------------------------
(* The period resolver *)

IsLeapYear(y) == (y % 4 = 0 /\ y % 100 # 0) \/ y % 400 = 0

LastDayOfMonth(y, m) ==
  IF m = 2 THEN (IF IsLeapYear(y) THEN 29 ELSE 28)
  ELSE IF m \in {4, 6, 9, 11} THEN 30 ELSE 31

\* the key YYYY-MM-DD of a calendar date
DateKey(y, m, d) ==
  toString(y) \o <<"-">> \o padStart(toString(m), 2, "0") \o <<"-">> \o padStart(toString(d), 2, "0")

\* the range runs from local midnight of the first date to local midnight of the last
RangeIs(r, y1, m1, d1, y2, m2, d2) ==
  /\ toLocalDateString(r.startDate) = DateKey(y1, m1, d1)
  /\ toLocalDateString(r.endDate) = DateKey(y2, m2, d2)
  /\ setHoursZero(r.startDate) = r.startDate
  /\ setHoursZero(r.endDate) = r.endDate

IsQuarterToken(p) == Len(p) = 7 /\ p[6] = "q"
IsSemesterToken(p) == Len(p) = 7 /\ p[6] = "s"
IsMonthToken(p) == Len(p) = 7 /\ IsDigit(p[6])
IsYearToken(p) == Len(p) = 4

\* the year written in a token
TokenYear(p) == parseInt(SubSeq(p, 1, 4))

\* the range a quarter or semester token resolves to lies in the year of the token
QuarterOrSemesterOfTokenYear(p) ==
  LET y == TokenYear(p)
      n == DigitValue(p[7])
  IN  /\ IsQuarterToken(p) =>
           RangeIs(periodRange(p), y, (n - 1) * 3 + 1, 1, y, n * 3, LastDayOfMonth(y, n * 3))
      /\ IsSemesterToken(p) =>
           RangeIs(periodRange(p), y, (n - 1) * 6 + 1, 1, y, n * 6, LastDayOfMonth(y, n * 6))

\* C9: a quarter token YYYY-qN resolves to the first day of month (N-1)*3+1 to the last
\* day of month N*3 of the year YYYY of the token, a semester token YYYY-sN to the first
\* day of month (N-1)*6+1 to the last day of month N*6 of YYYY, whatever the current
\* year: the range analysisData computes at the time the token is selected
C9_QuarterAndSemesterOfTokenYear ==
  [][\A i \in 1..Len(periodOptions) :
       setPeriod(periodOptions[i]) => QuarterOrSemesterOfTokenYear(periodOptions[i])]_vars

\* C10: a month token YYYY-MM resolves to day 1 to the last calendar day of that month
\* of YYYY, leap years included, and a year token YYYY to Jan 1 to Dec 31 of YYYY
C10_MonthAndYearRanges ==
  LET y == TokenYear(period)
  IN  /\ IsMonthToken(period) =>
           LET m == parseInt(SubSeq(period, 6, 7))
           IN  RangeIs(periodRange(period), y, m, 1, y, m, LastDayOfMonth(y, m))
      /\ IsYearToken(period) => RangeIs(periodRange(period), y, 1, 1, y, 12, 31)

\* the Dashboard was mounted in 2024 with February selected, and the range ends on the
\* 29th
C10_Witness ==
  /\ period = <<"2", "0", "2", "4", "-", "0", "2">>
  /\ toLocalDateString(periodRange(period).startDate) = <<"2", "0", "2", "4", "-", "0", "2", "-", "0", "1">>
  /\ toLocalDateString(periodRange(period).endDate) = <<"2", "0", "2", "4", "-", "0", "2", "-", "2", "9">>

\* the four shapes of a period token: YYYY-MM with MM in 01..12, YYYY, YYYY-qN with N in
\* 1..4 and YYYY-sN with N in 1..2
IsValidToken(p) ==
  LET yearDigits == Len(p) >= 4 /\ \A k \in 1..4 : IsDigit(p[k])
  IN  \/ Len(p) = 4 /\ yearDigits
      \/ /\ Len(p) = 7 /\ yearDigits /\ p[5] = "-"
         /\ \/ IsDigit(p[6]) /\ IsDigit(p[7]) /\ parseInt(SubSeq(p, 6, 7)) \in 1..12
            \/ p[6] = "q" /\ p[7] \in {"1", "2", "3", "4"}
            \/ p[6] = "s" /\ p[7] \in {"1", "2"}

\* C11: a token that is not of one of the four valid shapes is rejected: analysisData
\* resolves it to no date range
C11_InvalidTokenIsRejected ==
  ~IsValidToken(period) => periodRangeIsInvalidDate(period)

-----------------------------------------------------------------------------
(* The summaries *)

\* the calendar dates of a range, each at local midnight
PeriodDays(r) == {r.startDate + k * HoursPerDay : k \in 0..((r.endDate - r.startDate) \div HoursPerDay)}

\* the ledger holds a record of the teacher on the date
Recorded(teacherId, dateString) ==
  \E k \in 1..Len(attendanceRecords) :
    attendanceRecords[k].teacherId = teacherId /\ attendanceRecords[k].date = dateString

\* C5: in the Dashboard summary and in the summary of the grid, a work day without a
\* record adds one to A exactly when it is before today and adds nothing to S and I,
\* and a day that is not a work day of the teacher adds nothing at all
C5_UnrecordedAndNonWorkDays ==
  LET r        == periodRange(period)
      filtered == filteredRecords(period)
  IN  /\ \A i \in 1..Len(teachers), d \in PeriodDays(r) :
           LET c == dayCount(teachers[i], d, filtered)
           IN  IF isTeacherWorkDay(teachers[i], d, calendarSettings)
                 THEN ~Recorded(teachers[i].id, toLocalDateString(d)) =>
                        c.workDaysInPeriod = 1 /\ c.S = 0 /\ c.I = 0 /\ c.A = (IF d < today THEN 1 ELSE 0)
                 ELSE c.workDaysInPeriod = 0 /\ c.S = 0 /\ c.I = 0 /\ c.A = 0
      /\ \A i \in 1..Len(teachers), day \in 1..daysInMonth :
           LET d == newDate(gridYear, gridMonth, day)
               c == gridDayCount(teachers[i], day)
           IN  IF isTeacherWorkDayAttendance(teachers[i], d, calendarSettings)
                 THEN ~Recorded(teachers[i].id, toLocalDateString(d)) =>
                        c.workDays = 1 /\ c.S = 0 /\ c.I = 0 /\ c.A = (IF d < today THEN 1 ELSE 0)
                 ELSE c.workDays = 0 /\ c.S = 0 /\ c.I = 0 /\ c.A = 0

\* C6: in the Dashboard summary, a work day of the period for which the ledger holds a
\* PRESENT record of the teacher adds nothing to S, I and A, before today or not
C6_PresentRecordCountsNoAbsence ==
  LET r        == periodRange(period)
      filtered == filteredRecords(period)
  IN  \A i \in 1..Len(teachers), d \in PeriodDays(r) :
        (/\ isTeacherWorkDay(teachers[i], d, calendarSettings)
         /\ \E k \in 1..Len(attendanceRecords) :
              /\ attendanceRecords[k].teacherId = teachers[i].id
              /\ attendanceRecords[k].date = toLocalDateString(d)
              /\ attendanceRecords[k].status = PRESENT)
        => LET c == dayCount(teachers[i], d, filtered)
           IN  c.S = 0 /\ c.I = 0 /\ c.A = 0

\* C7: the Dashboard's lookup for a work day of the period finds the record the ledger
\* holds for the teacher on that date, on the first and the last day of the period as
\* on the days between, at every UTC offset
C7_LookupFindsEveryDayOfPeriod ==
  LET r        == periodRange(period)
      filtered == filteredRecords(period)
  IN  \A i \in 1..Len(teachers), d \in PeriodDays(r), k \in 1..Len(attendanceRecords) :
        (/\ isTeacherWorkDay(teachers[i], d, calendarSettings)
         /\ attendanceRecords[k].teacherId = teachers[i].id
         /\ attendanceRecords[k].date = toLocalDateString(d))
        => LET record == dayRecord(teachers[i], d, filtered)
           IN  record # 0 /\ filtered[record] = attendanceRecords[k]

\* C8: in every summary of the Dashboard and of the grid, presentDays is
\* max(0, workDays - (S + I + A)) and the percentage is round(presentDays / workDays * 100),
\* or 0 when there is no work day
C8_PresentDaysAndPercentage ==
  \A i \in 1..Len(teachers) :
    LET g == getSummary(teachers[i])
        t == teacherStat(teachers[i], period)
        gPresent == Max(0, g.workDays - (g.S + g.I + g.A))
        tPresent == Max(0, t.workDaysInPeriod - (t.S + t.I + t.A))
    IN  /\ g.presentDays = gPresent
        /\ g.presencePercentage = (IF g.workDays > 0 THEN toString((200 * gPresent + g.workDays) \div (2 * g.workDays)) ELSE <<"0">>) \o <<"%">>
        /\ t.presentDays = tPresent
        /\ t.presencePercentage = (IF t.workDaysInPeriod > 0 THEN (200 * tPresent + t.workDaysInPeriod) \div (2 * t.workDaysInPeriod) ELSE 0)

-----------------------------------------------------------------------------
(* The overall figures *)

\* the record belongs to a teacher of the current list
OfCurrentTeacher(rec) == \E i \in 1..Len(teachers) : teachers[i].id = rec.teacherId

\* the sum of a field over the elements of a sequence of records
FieldSum(stats, field) ==
  LET sums[k \in 0..Len(stats)] == IF k = 0 THEN 0 ELSE sums[k - 1] + stats[k][field]
  IN  sums[Len(stats)]

\* C12: the overall figures of the period are the sums over the current teachers of
\* presentDays, S, I and A, totalWorkDaysInPeriod is the sum of their workDaysInPeriod,
\* and each teacher's figures, hence the totals, are what they are on the ledger without
\* the records of teachers that are no longer in the list
C12_OverallIsSumOverCurrentTeachers ==
  LET stats    == teacherStats(period)
      overall  == overallStats(stats)
      r        == periodRange(period)
      live     == SelectSeq(filteredRecords(period), OfCurrentTeacher)
  IN  /\ overall.PRESENT = FieldSum(stats, "presentDays")
      /\ overall.SICK = FieldSum(stats, "S")
      /\ overall.PERMIT = FieldSum(stats, "I")
      /\ overall.ABSENT = FieldSum(stats, "A")
      /\ totalWorkDaysInPeriod(stats) = FieldSum(stats, "workDaysInPeriod")
      /\ Len(stats) = Len(teachers)
      /\ \A i \in 1..Len(teachers) :
           LET c == countDays(teachers[i], r.startDate, r.endDate, live,
                              [workDaysInPeriod |-> 0, S |-> 0, I |-> 0, A |-> 0])
           IN  /\ stats[i].id = teachers[i].id
               /\ stats[i].workDaysInPeriod = c.workDaysInPeriod
               /\ stats[i].S = c.S /\ stats[i].I = c.I /\ stats[i].A = c.A

\* a teacher was deleted after a SICK record was entered for them in the period: the
\* record is still among the filtered ones and no SICK day is in the overall figures
C12_Witness ==
  /\ Len(teachers) = 1
  /\ \E k \in 1..Len(filteredRecords(period)) :
       /\ ~OfCurrentTeacher(filteredRecords(period)[k])
       /\ filteredRecords(period)[k].status = SICK
  /\ overallStats(teacherStats(period)).SICK = 0
  /\ overallStats(teacherStats(period)).PRESENT > 0
  /\ totalWorkDaysInPeriod(teacherStats(period)) = teacherStats(period)[1].workDaysInPeriod

-----------------------------------------------------------------------------
(* The trend *)

\* the labels are those of the n months that start with month first (1..12), in order
MonthLabelsFrom(labels, first, n) ==
  /\ Len(labels) = n
  /\ \A i \in 1..n : labels[i] = monthLabels[first + i - 1]

\* C13: the trend has one point per calendar month of the range, in chronological order,
\* for a quarter, a semester and a year (3, 6 and 12 points) and one point per calendar
\* day of the month for a month token, and every dataset has as many entries as there
\* are labels
C13_TrendPointsPerMonthOrDay ==
  LET tr == trend(period)
      y  == TokenYear(period)
      n  == DigitValue(period[7])
  IN  /\ IsQuarterToken(period) => MonthLabelsFrom(tr.labels, (n - 1) * 3 + 1, 3)
      /\ IsSemesterToken(period) => MonthLabelsFrom(tr.labels, (n - 1) * 6 + 1, 6)
      /\ IsYearToken(period) => MonthLabelsFrom(tr.labels, 1, 12)
      /\ IsMonthToken(period) =>
           LET m == parseInt(SubSeq(period, 6, 7))
           IN  /\ Len(tr.labels) = LastDayOfMonth(y, m)
               /\ \A day \in 1..Len(tr.labels) : tr.labels[day] = toString(day)
      /\ \A id \in DOMAIN tr.datasets : Len(tr.datasets[id]) = Len(tr.labels)
      /\ DOMAIN tr.datasets = {overallKey} \cup {teachers[k].id : k \in 1..Len(teachers)}

\* February 2023 is selected and one teacher is left: 28 labels, 28 points for the
\* teacher, gaps among them, and 28 overall points
C13_Witness ==
  /\ period = <<"2", "0", "2", "3", "-", "0", "2">>
  /\ Len(teachers) = 1
  /\ Len(trend(period).labels) = 28
  /\ Len(trend(period).datasets[teachers[1].id]) = 28
  /\ \E day \in 1..28 : trend(period).datasets[teachers[1].id][day] = null
  /\ Len(trend(period).datasets[overallKey]) = 28

\* the token YYYY-MM of the month with index m (0..11) of the current year
MonthToken(m) == toString(getFullYear(now)) \o <<"-">> \o padStart(toString(m + 1), 2, "0")

\* C14: for a quarter, semester or year of the current year, each teacher's point of a
\* month is the presencePercentage the per-teacher summary gives for that month alone,
\* and the overall point of the month is the overall presence percentage of that month
C14_MonthlyPointIsSummaryOfMonth ==
  (IsValidToken(period) /\ isLongPeriod(period) /\ TokenYear(period) = getFullYear(now)) =>
    LET steps  == trendSteps(period)
        startM == getMonth(periodRange(period).startDate)
    IN  \A i \in 1..Len(steps) :
          LET stats   == teacherStats(MonthToken(startM + i - 1))
              present == overallStats(stats).PRESENT
              work    == totalWorkDaysInPeriod(stats)
          IN  /\ \A k \in 1..Len(teachers) : steps[i].points[k] = stats[k].presencePercentage
              /\ steps[i].overall = (IF work > 0 THEN roundPercent(present, work) ELSE 0)

\* the index in the ledger of the record of the teacher on the date (0: none)
LedgerRecord(teacherId, dateString) ==
  findIndex([k \in 1..Len(attendanceRecords) |->
              attendanceRecords[k].teacherId = teacherId /\ attendanceRecords[k].date = dateString])

\* what the claim expects of the point of a teacher on a day of the month
ExpectedDayPoint(teacher, d) ==
  LET record == LedgerRecord(teacher.id, toLocalDateString(d))
  IN  IF ~isTeacherWorkDay(teacher, d, calendarSettings) THEN null
      ELSE IF record # 0 /\ attendanceRecords[record].status \in {SICK, PERMIT, ABSENT} THEN 0
      ELSE IF record = 0 /\ d < today THEN 0
      ELSE 100

\* C15: for a month, a teacher's point of a day is null when the day is no work day of
\* the teacher, 0 when it is one and the ledger's record of the day is SICK, PERMIT or
\* ABSENT or there is no record and the day is before today, and 100 otherwise
C15_DailyPointOfTeacher ==
  IsMonthToken(period) =>
    LET steps == trendSteps(period)
        y     == TokenYear(period)
        m     == parseInt(SubSeq(period, 6, 7)) - 1
    IN  \A day \in 1..Len(steps), k \in 1..Len(teachers) :
          steps[day].points[k] = ExpectedDayPoint(teachers[k], newDate(y, m, day))

-----------------------------------------------------------------------------
(* The calendar settings *)

\* the settings a SET_CALENDAR_DAY may carry: every type, with and without a description,
\* for a Saturday and a Sunday the bootstrap has set and for three weekdays it has not
IncomingSettings ==
  {[date |-> toLocalDateString(day), type |-> dayType, description |-> description] :
     day \in CalendarDaysWide \cup CalendarDays \cup {newDate(2024, 1, 4)}, dayType \in DayType, description \in {"", "Libur"}}

\* the settings of the dates other than date, in order
OtherDates(settings, date) == SelectSeq(settings, LAMBDA s : s.date # date)

\* C17: from the bootstrap state on, calendarSettings holds at most one setting per date
\* key, and a SET_CALENDAR_DAY leaves exactly one setting for its date, the payload, in
\* the place of the old one if there was one and at the end otherwise, and the settings
\* of the other dates as they were
C17_OneSettingPerDateLastWriteWins ==
  /\ \A i, j \in 1..Len(calendarSettings) : calendarSettings[i].date = calendarSettings[j].date => i = j
  /\ \A payload \in IncomingSettings :
       LET after == appReducer(State, [type |-> "SET_CALENDAR_DAY", payload |-> payload]).calendarSettings
           old   == {k \in 1..Len(calendarSettings) : calendarSettings[k].date = payload.date}
           new   == {k \in 1..Len(after) : after[k].date = payload.date}
       IN  /\ Cardinality(new) = 1
           /\ \A k \in new : after[k] = payload
           /\ IF old = {} THEN new = {Len(calendarSettings) + 1} ELSE new = old
           /\ OtherDates(after, payload.date) = OtherDates(calendarSettings, payload.date)

\* Saturday 2024-02-03, a WEEKEND of the bootstrap, was set to WORKDAY and a weekday was
\* set after it: one setting for the Saturday, in its old place, and one more setting
\* than the bootstrap made
C17_Witness ==
  LET boot     == getInitialState.calendarSettings
      saturday == toLocalDateString(newDate(2024, 1, 3))
      place    == findIndex([k \in 1..Len(boot) |-> boot[k].date = saturday])
  IN  /\ place # 0
      /\ boot[place].type = WEEKEND
      /\ Len(calendarSettings) = Len(boot) + 1
      /\ calendarSettings[place] = [date |-> saturday, type |-> WORKDAY, description |-> ""]
      /\ calendarSettings[Len(calendarSettings)].date = toLocalDateString(newDate(2024, 1, 6))

-----------------------------------------------------------------------------
(* The reducer and the state it is given *)

\* the reducer returns a state object of its own, the state object it was given and the
\* three arrays of that state are after the call what they were before it, and the state
\* returned is the one appReducer computes
LeavesStateIntact(action) ==
  LET before == StateHeap
      result == appReducerHeap(before, 4, action)
  IN  /\ result.addr # 4
      /\ \A addr \in 1..4 : result.heap[addr] = before[addr]
      /\ stateAt(result.heap, 4) = State
      /\ stateAt(result.heap, result.addr) = appReducer(State, action)

\* an id no teacher has
NoTeacherId == <<"t", "-", "0">>

\* C18: each of the six reducer actions returns a new state and leaves the state it was
\* given intact: its teachers, attendanceRecords and calendarSettings hold the same
\* elements in the same order after the call
C18_ReducerLeavesPreviousStateIntact ==
  /\ LeavesStateIntact([type |-> "ADD_TEACHER", payload |-> newTeacher("Guru Baru", "Matematika")])
  /\ \A i \in 1..Len(teachers) :
       /\ LeavesStateIntact([type |-> "UPDATE_TEACHER", payload |-> editedTeacher(teachers[i], "Guru Baru", "Matematika")])
       /\ LeavesStateIntact([type |-> "DELETE_TEACHER", payload |-> teachers[i].id])
       /\ LeavesStateIntact([type |-> "UPDATE_TEACHER_SCHEDULE", payload |-> [teacherId |-> teachers[i].id, workDays |-> <<1, 3, 6>>]])
  /\ LeavesStateIntact([type |-> "DELETE_TEACHER", payload |-> NoTeacherId])
  /\ \A payload \in IncomingSettings : LeavesStateIntact([type |-> "SET_CALENDAR_DAY", payload |-> payload])
  /\ \A record \in IncomingRecords : LeavesStateIntact([type |-> "UPSERT_ATTENDANCE", payload |-> <<record>>])
  /\ \A payload \in TwicePayloads : LeavesStateIntact([type |-> "UPSERT_ATTENDANCE", payload |-> payload])

\* the state holds a record and a calendar setting, and an upsert for the pair of the
\* record and a SET_CALENDAR_DAY for the date of the setting write to arrays of their own
C18_Witness ==
  /\ Len(attendanceRecords) > 0 /\ Len(calendarSettings) > 0 /\ Len(teachers) > 0
  /\ \E record \in IncomingRecords :
       LET result == appReducerHeap(StateHeap, 4, [type |-> "UPSERT_ATTENDANCE", payload |-> <<record>>])
       IN  /\ SamePair(record, attendanceRecords[1]) /\ record # attendanceRecords[1]
           /\ result.heap[result.heap[result.addr].attendanceRecords][1] = record
           /\ result.heap[2] = attendanceRecords
  /\ \E payload \in IncomingSettings :
       LET result == appReducerHeap(StateHeap, 4, [type |-> "SET_CALENDAR_DAY", payload |-> payload])
       IN  /\ payload.date = calendarSettings[1].date /\ payload # calendarSettings[1]
           /\ result.heap[result.heap[result.addr].calendarSettings][1] = payload
           /\ result.heap[3] = calendarSettings

\* C19: DELETE_TEACHER removes the teachers whose id is the payload and no other, leaves
\* the remaining teachers in their order and attendanceRecords and calendarSettings as
\* they are (the records of the deleted teacher stay); with an id no teacher has the
\* state is unchanged
C19_DeleteTeacherRemovesOnlyTheTeacher ==
  \A id \in {teachers[i].id : i \in 1..Len(teachers)} \cup {NoTeacherId} :
    LET after   == appReducer(State, [type |-> "DELETE_TEACHER", payload |-> id])
        gone(i) == Cardinality({k \in 1..i : teachers[k].id = id})
    IN  /\ Len(after.teachers) = Len(teachers) - gone(Len(teachers))
        /\ \A i \in 1..Len(teachers) : teachers[i].id # id => after.teachers[i - gone(i)] = teachers[i]
        /\ after.attendanceRecords = attendanceRecords
        /\ after.calendarSettings = calendarSettings
        /\ (\A i \in 1..Len(teachers) : teachers[i].id # id) => after = State

\* the first teacher was deleted from the teachers page after a record was entered for
\* them: the second teacher is the one left and the record is still in the ledger
C19_Witness ==
  /\ Len(teachers) = 1 /\ teachers[1].id = T2
  /\ Len(attendanceRecords) = 1 /\ attendanceRecords[1].teacherId = T1
  /\ events = 2

-----------------------------------------------------------------------------
(* Persistence *)

\* C20: after every transition of the state a write of the whole state is attempted;
\* whether the write succeeded or its failure was caught, the state in memory is the
\* state after the mutation, the one handed to the write, and a write that succeeded
\* left that state in the storage, also after earlier writes failed
C20_FailedWriteLeavesMemoryState ==
  /\ writeArgument = State
  /\ writeOutcome \in {"written", "caught"}
  /\ writeOutcome = "written" => localStorage = stringify(State)

\* two submissions were made while setItem was throwing: both records are in memory and
\* the storage still holds the state without any record
C20_Witness ==
  /\ events = 2
  /\ writeOutcome = "caught"
  /\ Len(attendanceRecords) = 2
  /\ localStorage.attendanceRecords = <<>>
  /\ writeArgument.attendanceRecords = attendanceRecords

-----------------------------------------------------------------------------
(* Startup *)

\* the step in which AppProvider mounts on the item the storage holds
IsStartup == writeOutcome = "unmounted" /\ writeOutcome' # "unmounted"

\* the default work days for the teachers without workDays, the others as stored
MigratedEach(list) ==
  [k \in 1..Len(list) |-> IF "workDays" \in DOMAIN list[k] THEN list[k] ELSE withDefaultWorkDays(list[k])]

\* C21: on load every stored teacher without a workDays field gets workDays = [1,2,3,4,5]
\* and every stored teacher with a workDays field keeps it, wherever the teachers without
\* the field stand in the list and whether or not both kinds are mixed
C21_LoadMigratesEachLegacyTeacher ==
  [][IsStartup /\ "teachers" \in DOMAIN localStorage
       => \A k \in 1..Len(localStorage.teachers) :
            /\ k <= Len(teachers')
            /\ teachers'[k] = MigratedEach(localStorage.teachers)[k]]_vars

\* the item cannot be parsed, or the object it denotes lacks one of the three collections
\* or holds something else than a list as teachers
IsMalformed(storedState) ==
  \/ "unparseable" \in DOMAIN storedState
  \/ /\ "missing" \notin DOMAIN storedState
     /\ ~({"teachers", "attendanceRecords", "calendarSettings"} \subseteq DOMAIN storedState)

\* C22: when the stored item is unparseable or not of the expected structure, startup does
\* not crash and the initial state is the one used when nothing is stored: the default
\* roster, an empty ledger and a WEEKEND setting for every Saturday and Sunday of the
\* current year
C22_MalformedStorageStartsAsBootstrap ==
  [][IsStartup /\ IsMalformed(localStorage)
       => /\ writeOutcome' # "crashed"
          /\ teachers' = getInitialState.teachers
          /\ attendanceRecords' = getInitialState.attendanceRecords
          /\ calendarSettings' = getInitialState.calendarSettings]_vars

\* C23: a state that was written to the storage, also one whose list of teachers has
\* become empty, is the state the next startup produces: the same teachers, records and
\* calendar settings
C23_RestoreOfWrittenStateIsIdentity ==
  writeOutcome = "written" => readState(getInitialStateOf(localStorage)) = State

-----------------------------------------------------------------------------
(* The summary of February and January 2024 on 2024-02-01 *)

February2024 == <<"2", "0", "2", "4", "-", "0", "2">>
January2024 == <<"2", "0", "2", "4", "-", "0", "1">>

\* C24: for a teacher who works Monday to Friday, with no calendar setting, no record and
\* today = 2024-02-01, February 2024 has 21 work days, no absence, 21 present days and
\* 100 percent, and January 2024 has 23 work days, 23 absences, no present day and 0
\* percent
C24_FebruaryAndJanuaryOnFebruaryFirst ==
  toLocalDateString(today) = toLocalDateString(newDate(2024, 1, 1)) /\ attendanceRecords = <<>> /\ calendarSettings = <<>>
    => \A k \in 1..Len(teachers) :
         teachers[k].workDays = <<1, 2, 3, 4, 5>>
           => LET february == teacherStat(teachers[k], February2024)
                  january  == teacherStat(teachers[k], January2024)
              IN  /\ february.workDaysInPeriod = 21 /\ february.A = 0
                  /\ february.presentDays = 21 /\ february.presencePercentage = 100
                  /\ january.workDaysInPeriod = 23 /\ january.A = 23
                  /\ january.presentDays = 0 /\ january.presencePercentage = 0

\* on 2024-02-01, with nothing recorded, the Dashboard shows January 2024: the first
\* teacher has 23 work days, all of them inferred absences
C24_Witness ==
  /\ toLocalDateString(today) = toLocalDateString(newDate(2024, 1, 1))
  /\ attendanceRecords = <<>> /\ calendarSettings = <<>>
  /\ period = January2024
  /\ teachers[1].workDays = <<1, 2, 3, 4, 5>>
  /\ teacherStat(teachers[1], period).workDaysInPeriod = 23
  /\ teacherStat(teachers[1], period).A = 23
  /\ teacherStat(teachers[1], February2024).presentDays = 21

-----------------------------------------------------------------------------
(* Work days *)

\* the work days an UPDATE_TEACHER_SCHEDULE is probed with
ProbeSchedules == {<<>>, <<0, 3>>, <<1, 2, 3, 4, 5, 6>>}

\* C25: after any schedule checkbox toggles followed by a save, teacher edits and teacher
\* additions, the workDays of every teacher hold no weekday twice and only values 0..6;
\* UPDATE_TEACHER_SCHEDULE changes the workDays of the teachers whose id matches and
\* nothing else: not their other fields, not the other teachers, not the ledger, not the
\* calendar
C25_WorkDaysAreWeekdaysWithoutDuplicates ==
  /\ \A k \in 1..Len(teachers) :
       /\ \A i \in 1..Len(teachers[k].workDays) : teachers[k].workDays[i] \in 0..6
       /\ \A i, j \in 1..Len(teachers[k].workDays) : teachers[k].workDays[i] = teachers[k].workDays[j] => i = j
  /\ \A teacherId \in {teachers[k].id : k \in 1..Len(teachers)} \cup {NoTeacherId}, workDays \in ProbeSchedules :
       LET after == appReducer(State, [type |-> "UPDATE_TEACHER_SCHEDULE",
                                       payload |-> [teacherId |-> teacherId, workDays |-> workDays]])
       IN  /\ Len(after.teachers) = Len(teachers)
           /\ \A k \in 1..Len(teachers) :
                after.teachers[k] = IF teachers[k].id = teacherId
                                      THEN [id |-> teachers[k].id, name |-> teachers[k].name, subject |-> teachers[k].subject,
                                            profilePicture |-> teachers[k].profilePicture, workDays |-> workDays]
                                      ELSE teachers[k]
           /\ after.attendanceRecords = attendanceRecords
           /\ after.calendarSettings = calendarSettings

\* Sunday was checked and Wednesday unchecked for the first teacher, the schedules were
\* saved and the teacher was then edited: the saved schedule is still in place
C25_Witness ==
  /\ events = 2
  /\ Len(teachers) = 2
  /\ teachers[1].workDays = <<0, 1, 2, 4, 5>>
  /\ teachers[1].name \in FormNames
  /\ teachers[2].workDays = <<1, 2, 3, 4, 5>>

-----------------------------------------------------------------------------
(* Percentages *)

\* C26: in every reachable state, for the period shown, the presencePercentage of every
\* teacher and every trend point that is not null (of a day or of a month, of a teacher
\* or overall) lies between 0 and 100
C26_PercentagesBetween0And100 ==
  LET stats == teacherStats(period)
      tr    == trend(period)
  IN  /\ \A k \in 1..Len(stats) : stats[k].presencePercentage \in 0..100
      /\ \A id \in DOMAIN tr.datasets : \A i \in 1..Len(tr.datasets[id]) :
           tr.datasets[id][i] = null \/ tr.datasets[id][i] \in 0..100

-----------------------------------------------------------------------------
(* The grid's summary and the Dashboard's *)

\* C27: in every reachable state, for every teacher, the summary of the monthly grid
\* (work days, S, I, A, present days, percentage) equals the Dashboard's statistics of the
\* teacher for the token of the grid's month, also when a record was entered on a day that
\* later stopped being a work day of the teacher, and the grid's present days are never
\* negative
C27_GridSummaryEqualsDashboardMonth ==
  \A i \in 1..Len(teachers) :
    LET g == getSummary(teachers[i])
        t == teacherStat(teachers[i], monthString)
    IN  /\ g.workDays = t.workDaysInPeriod
        /\ g.S = t.S /\ g.I = t.I /\ g.A = t.A
        /\ g.presentDays = t.presentDays
        /\ g.presencePercentage = percentText(t.presencePercentage)
        /\ g.presentDays >= 0

-----------------------------------------------------------------------------
(* The Dashboard's totals *)

\* C28: in the Dashboard's summary of the period shown, in every reachable state, S + I + A
\* of each teacher is at most workDaysInPeriod, so that the floor at zero never changes
\* presentDays, and overall PRESENT + SICK + PERMIT + ABSENT is totalWorkDaysInPeriod
C28_AbsencesWithinWorkDays ==
  LET stats   == teacherStats(period)
      overall == overallStats(stats)
  IN  /\ \A k \in 1..Len(stats) :
           /\ stats[k].S + stats[k].I + stats[k].A <= stats[k].workDaysInPeriod
           /\ stats[k].presentDays = stats[k].workDaysInPeriod - (stats[k].S + stats[k].I + stats[k].A)
      /\ overall.PRESENT + overall.SICK + overall.PERMIT + overall.ABSENT = totalWorkDaysInPeriod(stats)

\* the first teacher was marked SICK on 2024-02-01 and the day was then made a national
\* holiday: the record is in the ledger and no SICK day is in the summary of the month
C28_Witness ==
  /\ period = <<"2", "0", "2", "4", "-", "0", "2">>
  /\ \E k \in 1..Len(attendanceRecords) :
       /\ attendanceRecords[k].teacherId = teachers[1].id
       /\ attendanceRecords[k].status = SICK
       /\ attendanceRecords[k].date = toLocalDateString(newDate(2024, 1, 1))
  /\ Len(attendanceRecords) = 1
  /\ \E k \in 1..Len(calendarSettings) :
       calendarSettings[k].date = toLocalDateString(newDate(2024, 1, 1)) /\ calendarSettings[k].type = NATIONAL_HOLIDAY
  /\ teacherStat(teachers[1], period).S = 0
  /\ teacherStat(teachers[1], period).presentDays < teacherStat(teachers[1], period).workDaysInPeriod

-----------------------------------------------------------------------------
(* Mass attendance *)

\* the selections a mass submission is probed with: those of the modal, and every teacher
\* together with the id of a teacher who is not in the list
ProbeSelections ==
  MassSelections \cup {<<NoTeacherId>> \o [k \in 1..Len(teachers) |-> teachers[k].id]}

\* the number YYYYMMDD of a date string YYYY-MM-DD
DayNumber(dateString) == parseInt(SelectSeq(dateString, IsDigit))

\* the days of the first week of February 2024: the date string of each, its number, its
\* resolved day type and its weekday
WeekTable ==
  [d \in ProbeDates |-> [date |-> toLocalDateString(d), number |-> DayNumber(toLocalDateString(d)),
                         type |-> ResolvedDayType(d), weekday |-> getDay(d)]]

\* the (teacher, day) pairs of a selection and a range whose teacher is in the list and
\* whose day is a WORKDAY by the calendar and a weekday of the teacher's schedule
QualifyingPairs(selected, first, last, week) ==
  {pair \in {selected[i] : i \in 1..Len(selected)} \X {d \in DOMAIN week : week[d].number >= first /\ week[d].number <= last} :
     \E k \in 1..Len(teachers) :
       /\ teachers[k].id = pair[1]
       /\ week[pair[2]].type = WORKDAY
       /\ \E i \in 1..Len(teachers[k].workDays) : teachers[k].workDays[i] = week[pair[2]].weekday}

\* C29: a mass submission over [startDate, endDate] for the selected teachers builds
\* records for exactly the (teacher, date) pairs whose teacher is still in the list and
\* whose date is a work day of that teacher under the current calendar and schedule,
\* nothing for weekends, holidays, joint-leave days or days off the schedule; the upsert
\* leaves every record of the ledger outside those pairs unchanged; there is nothing to
\* dispatch when no pair qualifies or the end date is before the start date; and the
\* times are stored only with the status PRESENT
C29_MassSubmissionWritesWorkDaysOnly ==
  \A week \in {WeekTable} :
    \A selected \in ProbeSelections, startDate \in RangeDates, endDate \in RangeDates, status \in {PRESENT, SICK} :
      \A payload \in {massDays(selected, fromLocalDateString(startDate), fromLocalDateString(endDate), status, "07:00", "15:00")},
         pairs \in {QualifyingPairs(selected, DayNumber(startDate), DayNumber(endDate), week)} :
        \A wanted \in {{IncomingRecord(pair[1], week[pair[2]].date, status, "07:00", "15:00") : pair \in pairs}},
           after \in {appReducer(State, [type |-> "UPSERT_ATTENDANCE", payload |-> payload]).attendanceRecords} :
          /\ {payload[k] : k \in 1..Len(payload)} = wanted
          /\ Len(payload) = Cardinality(pairs)
          /\ (pairs = {}) = (payload = <<>>)
          /\ DayNumber(endDate) < DayNumber(startDate) => payload = <<>>
          /\ \A k \in 1..Len(payload) :
               /\ payload[k].checkIn = (IF status = PRESENT THEN "07:00" ELSE undefined)
               /\ payload[k].checkOut = (IF status = PRESENT THEN "15:00" ELSE undefined)
          /\ Len(after) >= Len(attendanceRecords)
          /\ \A k \in 1..Len(after) :
               IF \E r \in wanted : SamePair(after[k], r)
                 THEN after[k] \in wanted
                 ELSE k <= Len(attendanceRecords) /\ after[k] = attendanceRecords[k]

\* Monday 2024-02-05 was made a national holiday and the mass modal was then submitted
\* for both teachers from Friday to Monday with SICK: the ledger holds the two records of
\* Friday, without times, and nothing for the weekend or the holiday
C29_Witness ==
  /\ events = 2
  /\ \E k \in 1..Len(calendarSettings) :
       calendarSettings[k].date = toLocalDateString(newDate(2024, 1, 5)) /\ calendarSettings[k].type = NATIONAL_HOLIDAY
  /\ Len(attendanceRecords) = 2
  /\ \A k \in 1..2 :
       /\ attendanceRecords[k].teacherId = teachers[k].id
       /\ attendanceRecords[k].date = toLocalDateString(newDate(2024, 1, 2))
       /\ attendanceRecords[k].status = SICK
       /\ attendanceRecords[k].checkIn = undefined

-----------------------------------------------------------------------------
(* Teacher ids *)

\* the teachers an UPDATE_TEACHER is probed with: every teacher of the list as the form
\* submits it after an edit, and a teacher with an id nobody has
ProbeSaves ==
  {editedTeacher(teachers[i], name, subject) : i \in 1..Len(teachers), name \in TeacherNames, subject \in FormSubjects}
    \cup {[id |-> NoTeacherId, name |-> "Guru Baru", subject |-> "Matematika", profilePicture |-> "", workDays |-> <<1, 2, 3, 4, 5>>]}

\* C30: after any sequence of teacher saves and deletes on the teachers page no two
\* teachers of the list share an id; saving a teacher whose id is in the list replaces that
\* teacher in place, the number and the order of the teachers unchanged; and an
\* UPDATE_TEACHER for an id no teacher has leaves the list unchanged
C30_TeacherIdsAreUnique ==
  /\ \A i, j \in 1..Len(teachers) : teachers[i].id = teachers[j].id => i = j
  /\ \A teacher \in ProbeSaves :
       \A after \in {appReducer(State, [type |-> "UPDATE_TEACHER", payload |-> teacher]).teachers} :
         /\ Len(after) = Len(teachers)
         /\ \A k \in 1..Len(teachers) : after[k] = IF teachers[k].id = teacher.id THEN teacher ELSE teachers[k]
         /\ teacher.id = NoTeacherId => after = teachers

\* both teachers were edited, one after the other: each was replaced in its place, under
\* its id
C30_Witness ==
  /\ events = 2
  /\ Len(teachers) = 2
  /\ teachers[1].id = T1 /\ teachers[1].name = "Guru Baru"
  /\ teachers[2].id = T2 /\ teachers[2].name = "Guru Lama"

====
